---- MODULE Spec2Model ----
(***************************************************************************)
(* A model of the Gaussian-mixture speaker pipeline of                     *)
(* Python/stats/gmm.py (map_adaptation, train_gmm_models,                  *)
(* load_gmm_models, predict_gmm_models and same_different_task), of        *)
(* extract_and_filter_zips and main of Python/unzip_plus.py, and of the    *)
(* sound-processing scripts auto-transcalign.py (whisper_transcribe_align),*)
(* whisper_language_detection.py (detect_language) and tg_helper.py        *)
(* (TextGridHandler and main).                                             *)
(*                                                                         *)
(* Each function has a group of variables and a specification of its own;  *)
(* the variables of the other groups stay at their initial values.         *)
(*   SpecAdapt      one call of map_adaptation                             *)
(*   SpecAdaptPath  its output_path handling                               *)
(*   SpecAdaptTerm  the same call under fair scheduling (termination)      *)
(*   SpecPar        two interleaved calls of map_adaptation on one UBM     *)
(*   SpecStore      train_gmm_models (once or twice) and load_gmm_models   *)
(*   SpecScore      predict_gmm_models and same_different_task             *)
(*   SpecZip        extract_and_filter_zips                                *)
(*   SpecMain       main of unzip_plus.py                                  *)
(*   SpecWhisper    whisper_transcribe_align                               *)
(*   SpecDetect     detect_language                                        *)
(*   SpecGrid       TextGridHandler: construction and add_tier             *)
(*   SpecMenu       the output-file prompts of tg_helper.main              *)
(*                                                                         *)
(* Numbers: a numpy float64 is modelled as an exact rational or one of the *)
(* IEEE specials nan, inf, -inf (rounding is not modelled).  The results   *)
(* of scikit-learn's predict_proba, score and fit are inputs: any          *)
(* row-stochastic responsibility matrix, any score, a model determined by  *)
(* the training data.                                                      *)
(***************************************************************************)
EXTENDS Integers, Sequences, FiniteSets, TLC

(***************************************************************************)
(* Bounds.                                                                 *)
(***************************************************************************)
\* The largest max_iter passed to map_adaptation.
MaxIter == 2
\* The longest output_path (in characters) tried in SpecAdaptPath.
MaxPathLen == 4
\* The largest number of feature matrices and of speaker labels passed to
\* train_gmm_models.
MaxFiles == 2
\* The largest number of entries of the model directory before the calls.
MaxDirEntries == 2
\* The float range, scaled down: exp overflows to inf above 2^ExpOverflow.
ExpOverflow == 4
\* The largest number of tiers of a TextGrid.
MaxTiers == 3
\* The largest number of answers to the prompt for the output filename.
MaxPrompts == 7

(***************************************************************************)
(* float64 values: [k, n, d].  k = "fin": the rational n/d in lowest terms *)
(* with d > 0; k = "inf": n = 1 is inf, n = -1 is -inf; k = "nan".         *)
(***************************************************************************)
RECURSIVE GCD(_, _)
GCD(a, b) == IF b = 0 THEN a ELSE GCD(b, a % b)

Abs(i) == IF i < 0 THEN -i ELSE i

Sgn(i) == IF i < 0 THEN -1 ELSE IF i = 0 THEN 0 ELSE 1

\* The float n/d (d # 0), normalised.
Rat(n, d) ==
    LET g == GCD(Abs(n), Abs(d))
        s == IF d < 0 THEN -1 ELSE 1
    IN  [k |-> "fin", n |-> s * (n \div g), d |-> Abs(d) \div g]

F(i) == [k |-> "fin", n |-> i, d |-> 1]

NaN == [k |-> "nan", n |-> 0, d |-> 1]

Inf(s) == [k |-> "inf", n |-> s, d |-> 1]

IsFin(a) == a.k = "fin"

IsNaN(a) == a.k = "nan"

\* The sign of a float that is not nan.
FSgn(a) == Sgn(a.n)

FNeg(a) == [a EXCEPT !.n = -a.n]

FAdd(a, b) ==
    IF IsNaN(a) \/ IsNaN(b) THEN NaN
    ELSE IF a.k = "inf" /\ b.k = "inf" THEN (IF a.n = b.n THEN a ELSE NaN)
    ELSE IF a.k = "inf" THEN a
    ELSE IF b.k = "inf" THEN b
    ELSE Rat(a.n * b.d + b.n * a.d, a.d * b.d)

FSub(a, b) == FAdd(a, FNeg(b))

FMul(a, b) ==
    IF IsNaN(a) \/ IsNaN(b) THEN NaN
    ELSE IF a.k = "inf" \/ b.k = "inf"
         THEN (IF FSgn(a) * FSgn(b) = 0 THEN NaN ELSE Inf(FSgn(a) * FSgn(b)))
    ELSE Rat(a.n * b.n, a.d * b.d)

\* numpy's true division: x/0 is inf or -inf, 0/0 is nan (a warning, no error).
FDiv(a, b) ==
    IF IsNaN(a) \/ IsNaN(b) THEN NaN
    ELSE IF b.k = "inf" THEN (IF a.k = "inf" THEN NaN ELSE F(0))
    ELSE IF a.k = "inf" THEN Inf(IF FSgn(b) < 0 THEN -a.n ELSE a.n)
    ELSE IF b.n = 0 THEN (IF a.n = 0 THEN NaN ELSE Inf(FSgn(a)))
    ELSE Rat(a.n * b.d, a.d * b.n)

FAbs(a) == IF IsNaN(a) THEN NaN ELSE [a EXCEPT !.n = Abs(a.n)]

\* a > b; every comparison with nan is False.
FGt(a, b) ==
    IF IsNaN(a) \/ IsNaN(b) THEN FALSE
    ELSE IF a.k = "inf" /\ b.k = "inf" THEN a.n > b.n
    ELSE IF a.k = "inf" THEN a.n > 0
    ELSE IF b.k = "inf" THEN b.n < 0
    ELSE a.n * b.d > b.n * a.d

FLe(a, b) == ~IsNaN(a) /\ ~IsNaN(b) /\ ~FGt(a, b)

\* The sum of the floats f[1], ..., f[n] in index order.
RECURSIVE FSum(_, _)
FSum(f, n) == IF n = 0 THEN F(0) ELSE FAdd(FSum(f, n - 1), f[n])


(***************************************************************************)
(* Strings are sequences of one-character strings, so that str.split,      *)
(* str.replace, str.endswith and the f-strings act on characters.          *)
(***************************************************************************)
\* The extension '.gmm' of lines 61, 147, 169 and 171.
GmmExt == <<".", "g", "m", "m">>

\* c in s
Contains(s, c) == \E i \in 1..Len(s) : s[i] = c

\* s.split(c)[0]: the characters of s before the first c (all of s without one).
RECURSIVE SplitFirst(_, _)
SplitFirst(s, c) ==
    IF s = <<>> \/ Head(s) = c THEN <<>>
    ELSE <<Head(s)>> \o SplitFirst(Tail(s), c)

\* Lines 94-96: "Strip any extension from the output path".
StripOutputPath(p) ==
    IF p # <<>> /\ Contains(p, ".") THEN SplitFirst(p, ".") ELSE p

(***************************************************************************)
(* map_adaptation (lines 68-150).                                          *)
(*                                                                         *)
(* A GaussianMixture is an object whose fields means_, weights_ and        *)
(* covariances_ refer to arrays on the heap: the function updates an array *)
(* in place through the reference mu_k.                                    *)
(***************************************************************************)
VARIABLES
    a_pc,                   \* "idle", "loop" (line 114) or "done" (returned)
    a_in,                   \* the arguments of the call
    heap,                   \* array reference -> array (<<>>: not allocated)
    ubm,                    \* the caller's UBM object
    gmm,                    \* line 93
    output_path,            \* lines 95-96
    mu_new,                 \* line 102
    n_k,                    \* lines 103, 120
    mu_k,                   \* line 106: a reference
    adaptation_coefficient, \* line 131
    old__likelihood,        \* lines 109, 118
    new_likelihood,         \* lines 110, 137
    iterations,             \* line 112
    a_msg,                  \* lines 141-144: what the call printed
    a_files,                \* the files the call wrote: path -> pickle
    a_ret                   \* line 150: the object returned

adaptVars == <<a_pc, a_in, heap, ubm, gmm, output_path, mu_new, n_k, mu_k,
               adaptation_coefficient, old__likelihood, new_likelihood,
               iterations, a_msg, a_files, a_ret>>

(***************************************************************************)
(* predict_gmm_models and same_different_task (lines 176-235).             *)
(***************************************************************************)
VARIABLES
    s_keys,     \* the keys of speaker_models, in the dict's iteration order
    s_ll,       \* query -> speaker -> gmm.score(query) of that speaker's model
    p_ret,      \* what the last predict_gmm_models call returned
    sd_ret      \* what the last same_different_task call returned

scoreVars == <<s_keys, s_ll, p_ret, sd_ret>>

(***************************************************************************)
(* train_gmm_models and load_gmm_models (lines 11-65, 153-173), on one     *)
(* directory: train's output_dir is load's gmm_dir.                        *)
(***************************************************************************)
VARIABLES
    dir_exists,     \* os.path.exists of the directory
    entries,        \* the directory: entry name -> content
    t_pc,           \* train: "idle", "loop" (line 50), "done" or "error"
    t_in,           \* train: the arguments, and the directory before the call
    t_todo,         \* train: the speakers of np.unique still to come
    gmm_models,     \* train: line 49
    fit_calls,      \* train: the speakers whose gmm.fit was called, in order
    t_err,          \* train: the exception raised
    t_ret,          \* train: the mapping returned
    l_pc,           \* load: "idle", "loop" (line 168), "done" or "error"
    l_todo,         \* load: the names of os.listdir still to come
    l_models,       \* load: line 167
    l_err,          \* load: the exception raised
    l_ret           \* load: the mapping returned

storeVars == <<dir_exists, entries, t_pc, t_in, t_todo, gmm_models, fit_calls,
               t_err, t_ret, l_pc, l_todo, l_models, l_err, l_ret>>

(***************************************************************************)
(* Two calls of map_adaptation on one UBM object, run by two workers whose *)
(* steps interleave.                                                       *)
(***************************************************************************)
VARIABLES
    c_pc,       \* caller -> "idle", "loop" (line 114) or "done"
    c_in,       \* the arguments of the two calls
    c_heap,     \* array reference <<owner, field>> -> array (owner 0: the UBM)
    c_gmm,      \* caller -> its gmm (line 93); mu_k is c_gmm[p].means_
    c_lik,      \* caller -> its old__likelihood and new_likelihood
    c_iter,     \* caller -> its iterations
    c_ret       \* caller -> the object returned

parVars == <<c_pc, c_in, c_heap, c_gmm, c_lik, c_iter, c_ret>>

(***************************************************************************)
(* extract_and_filter_zips (unzip_plus.py, lines 26-119).                  *)
(***************************************************************************)
VARIABLES
    z_pc,       \* "idle", "loop" (line 73), "done" or "error"
    z_in,       \* the arguments and the file system before the call
    z_todo,     \* the names of os.listdir(input_directory) still to come
    z_exists,   \* output_directory exists
    z_out,      \* output_directory: relative path -> [kind, from]
    z_err       \* the exception raised

zipVars == <<z_pc, z_in, z_todo, z_exists, z_out, z_err>>

(***************************************************************************)
(* whisper_transcribe_align (sound_processing/auto-transcalign.py, lines   *)
(* 444-517).                                                               *)
(***************************************************************************)
VARIABLES
    w_pc,       \* "idle", "loop" (line 484) or "done"
    w_in,       \* the arguments and the two directories before the call
    w_todo,     \* the names of audio_files still to come
    w_fs,       \* directory ("corpus", "out") -> file name -> content
    w_log       \* the audio files the call transcribed

whisperVars == <<w_pc, w_in, w_todo, w_fs, w_log>>

(***************************************************************************)
(* detect_language, called by main for one recording                       *)
(* (sound_processing/whisper_language_detection.py, lines 44-118, 167).    *)
(***************************************************************************)
VARIABLES
    d_pc,       \* "idle", "loop" (line 94), "done" or "error"
    d_in,       \* the recording and main's arguments
    n_frames,   \* lines 78, 88
    d_i,        \* line 94: the loop variable i
    d_chunks    \* the chunks passed to the model: <<i, end_frame>>, in order

detectVars == <<d_pc, d_in, n_frames, d_i, d_chunks>>

(***************************************************************************)
(* TextGridHandler (sound_processing/tg_helper.py, lines 67-271): an       *)
(* object made from a table, and its add_tier calls.                       *)
(***************************************************************************)
VARIABLES
    h_pc,       \* "new" (not constructed), "ready" or "error" (__init__ raised)
    h_in,       \* the table given to the constructor
    h_tiers,    \* self.tiers
    h_tg,       \* self.textgrid
    h_added,    \* the number of add_tier calls made
    h_err       \* the exception the last call raised

gridVars == <<h_pc, h_in, h_tiers, h_tg, h_added, h_err>>

(***************************************************************************)
(* tg_helper.main (sound_processing/tg_helper.py, lines 403-475), up to    *)
(* the prompts for the column names.                                       *)
(***************************************************************************)
VARIABLES
    m_pc,               \* "start", "filename" (line 426), "overwrite" (line
                        \* 432), "columns" (line 441) or "exit" (line 438)
    m_function,         \* parsed_args.function
    iMax,               \* line 424
    output_filename,    \* line 426
    m_prompts           \* the number of prompts for the output filename

menuVars == <<m_pc, m_function, iMax, output_filename, m_prompts>>

(***************************************************************************)
(* unzip_plus.main (unzip_plus.py, lines 138-165).                         *)
(***************************************************************************)
VARIABLES
    u_pc,       \* "start", "input_ok" (after line 149), "output_ok" (after
                \* line 158), "called" or "aborted"
    u_in,       \* the arguments of main
    u_answers,  \* what the user typed at the prompts, in order
    u_msg,      \* what main printed
    u_call      \* the arguments extract_and_filter_zips was called with

mainVars == <<u_pc, u_in, u_answers, u_msg, u_call>>

vars == <<adaptVars, scoreVars, storeVars, parVars, zipVars,
         whisperVars,
         detectVars,
         gridVars,
         menuVars,
         mainVars>>

\* The variables the actions of one group leave alone.
notAdapt == <<scoreVars, storeVars, parVars, zipVars,
    whisperVars,
    detectVars,
    gridVars,
    menuVars,
    mainVars>>

notScore == <<adaptVars, storeVars, parVars, zipVars,
    whisperVars,
    detectVars,
    gridVars,
    menuVars,
    mainVars>>

notStore == <<adaptVars, scoreVars, parVars, zipVars,
    whisperVars,
    detectVars,
    gridVars,
    menuVars,
    mainVars>>

notPar == <<adaptVars, scoreVars, storeVars, zipVars,
    whisperVars,
    detectVars,
    gridVars,
    menuVars,
    mainVars>>

notZip == <<adaptVars, scoreVars, storeVars, parVars,
    whisperVars,
    detectVars,
    gridVars,
    menuVars,
    mainVars>>

notWhisper == <<adaptVars, scoreVars, storeVars, parVars, zipVars,
    detectVars,
    gridVars,
    menuVars,
    mainVars>>

notDetect == <<adaptVars, scoreVars, storeVars, parVars, zipVars,
    whisperVars,
    gridVars,
    menuVars,
    mainVars>>

notGrid == <<adaptVars, scoreVars, storeVars, parVars, zipVars,
    whisperVars, detectVars,
    menuVars,
    mainVars>>

notMenu == <<adaptVars, scoreVars, storeVars, parVars, zipVars,
    whisperVars, detectVars, gridVars,
    mainVars>>

notMain == <<adaptVars, scoreVars, storeVars, parVars, zipVars,
    whisperVars, detectVars, gridVars, menuVars>>

ArrIds == {"U.means", "U.weights", "U.cov", "G.means", "G.weights", "G.cov"}

NoObject == [id |-> "none", means_ |-> "none", weights_ |-> "none",
             covariances_ |-> "none"]

\* A matrix of floats from a matrix of integers.
FMat(m) == [i \in 1..Len(m) |-> [j \in 1..Len(m[i]) |-> F(m[i][j])]]

\* The UBMs and feature matrices tried: K = 2 components, N = 2 frames, D = 1
\* or 2 features.
AdaptScenarios ==
    { [means |-> FMat(<< <<0>>, <<4>> >>), X |-> FMat(<< <<2>>, <<6>> >>)],
      [means |-> FMat(<< <<0, 0>>, <<2, 4>> >>),
       X |-> FMat(<< <<1, 1>>, <<3, 5>> >>)] }

RelevanceFactors == {0, 1, 16}

Thresholds == {F(0), F(1)}

\* The values GaussianMixture.score returns for a model with finite means.
ScoreVals == {F(-2), F(-1), F(0)}

\* The output paths tried by SpecAdapt (<<>>: none given).
AdaptPaths ==
    { <<>>, <<"s">>, <<"s", ".", "g", "m", "m">>,
      <<".", "/", "m", "/", "s", ".", "g", "m", "m">>,
      <<"m", "/", "v", "1", ".", "2", "/", "s">> }

PathChars == {"s", ".", "/"}

\* Every string over PathChars of at most n characters.
RECURSIVE StringsUpTo(_)
StringsUpTo(n) ==
    IF n = 0 THEN {<<>>}
    ELSE LET S == StringsUpTo(n - 1)
         IN  S \cup {Append(s, c) : s \in {t \in S : Len(t) = n - 1}, c \in PathChars}

\* No path and the paths of at most n characters that end in a name character.
FilePathsUpTo(n) == {p \in StringsUpTo(n) : p = <<>> \/ p[Len(p)] = "s"}

\* All the floats of a matrix are finite.
AllFinite(m) == \A i \in 1..Len(m) : \A j \in 1..Len(m[i]) : IsFin(m[i][j])

\* The rows a responsibility matrix of K = 2 components may have (each sums to 1).
RespRows == { <<F(1), F(0)>>, <<F(0), F(1)>>, <<Rat(1, 2), Rat(1, 2)>> }

\* GaussianMixture.predict_proba(X) (line 119): any row-stochastic matrix for a
\* model with finite means, nan everywhere for one with a nan or inf mean.
PredictProba(means, X) ==
    IF AllFinite(means) THEN [1..Len(X) -> RespRows]
    ELSE { [n \in 1..Len(X) |-> [i \in 1..Len(means) |-> NaN]] }

\* GaussianMixture.score(X) (lines 109, 137): any value for a model with finite
\* means, nan for one with a nan or inf mean.
Score(means) == IF AllFinite(means) THEN ScoreVals ELSE {NaN}

\* deepcopy(ubm) (line 93): a new object with new arrays of the same contents.
NoCopy(o, h) == [obj |-> o, heap |-> h]

\* A new GaussianMixture that is given the means alone.
CopyMeansOnly(o, h) ==
    [obj  |-> [id |-> "gmm", means_ |-> "G.means", weights_ |-> "G.weights",
               covariances_ |-> "G.cov"],
     heap |-> [h EXCEPT !["G.means"] = h[o.means_]]]

DeepCopy(o, h) ==
    [obj  |-> [id |-> "gmm", means_ |-> "G.means", weights_ |-> "G.weights",
               covariances_ |-> "G.cov"],
     heap |-> [h EXCEPT !["G.means"] = h[o.means_],
                        !["G.weights"] = h[o.weights_],
                        !["G.cov"] = h[o.covariances_]]]

\* pickle.dump(gmm, f) (line 148): the bytes hold the object's arrays by value.
Pickle(o, h) == [tag |-> "pickle", means |-> h[o.means_],
                 weights |-> h[o.weights_], covariances |-> h[o.covariances_]]

\* Line 120: n_k = np.sum(z_n_k, axis=0).
Occupancy(z, K) == [i \in 1..K |-> FSum([n \in 1..Len(z) |-> z[n][i]], Len(z))]

\* Lines 123-128: mu_new[i] = (1/n_k[i]) * sum_n z_n_k[n, i] * X[n, :].
DataMean(z, X, nk, i) ==
    [d \in 1..Len(X[1]) |->
        FMul(FDiv(F(1), nk[i]),
             FSum([n \in 1..Len(X) |-> FMul(z[n][i], X[n][d])], Len(X)))]

\* Line 131.
CoefficientOverFactor(nk, rf) == [k \in 1..Len(nk) |-> FDiv(nk[k], F(rf))]

Coefficient(nk, rf) == [k \in 1..Len(nk) |-> FDiv(nk[k], FAdd(nk[k], F(rf)))]

\* Lines 133-134: the new row k of mu_k.
AdaptMean(c, munew, muk) ==
    [d \in 1..Len(muk) |->
        FAdd(FMul(c, munew[d]), FMul(FSub(F(1), c), muk[d]))]

\* Lines 114 and 141: abs(old__likelihood - new_likelihood) > likelihood_threshold.
NotConverged(old, new, thr) == FGt(FAbs(FSub(old, new)), thr)

\* Line 114: the loop's condition.
LoopConditionOneMore ==
    /\ NotConverged(old__likelihood, new_likelihood, a_in.likelihood_threshold)
    /\ iterations <= a_in.max_iter

LoopCondition ==
    /\ NotConverged(old__likelihood, new_likelihood, a_in.likelihood_threshold)
    /\ iterations < a_in.max_iter

\* The weights and covariances of the UBMs tried.
UbmWeights == <<Rat(1, 2), Rat(1, 2)>>

UbmCovariances(means) ==
    [i \in 1..Len(means) |-> [j \in 1..Len(means[i]) |-> F(1)]]

\* The state before the call.  a_in holds the arguments; its field ubm_value is
\* the value of the UBM's arrays at the time of the call.
InitAdaptWith(scenarios, paths, iters, thresholds, factors) ==
    /\ a_pc = "idle"
    /\ \E sc \in scenarios, p \in paths, mi \in iters,
          th \in thresholds, rf \in factors :
          /\ a_in = [X |-> sc.X, output_path |-> p, max_iter |-> mi,
                     likelihood_threshold |-> th, relevance_factor |-> rf,
                     ubm_value |-> [means |-> sc.means, weights |-> UbmWeights,
                                    covariances |-> UbmCovariances(sc.means)]]
          /\ heap = [r \in ArrIds |->
                       CASE r = "U.means" -> sc.means
                         [] r = "U.weights" -> UbmWeights
                         [] r = "U.cov" -> UbmCovariances(sc.means)
                         [] OTHER -> <<>>]
    /\ ubm = [id |-> "ubm", means_ |-> "U.means", weights_ |-> "U.weights",
              covariances_ |-> "U.cov"]
    /\ gmm = NoObject
    /\ output_path = <<>>
    /\ mu_new = <<>>
    /\ n_k = <<>>
    /\ mu_k = "none"
    /\ adaptation_coefficient = <<>>
    /\ old__likelihood = F(0)
    /\ new_likelihood = F(0)
    /\ iterations = 0
    /\ a_msg = "none"
    /\ a_files = <<>>
    /\ a_ret = NoObject

\* No call of map_adaptation is made.
IdleAdapt ==
    InitAdaptWith({sc \in AdaptScenarios : Len(sc.X[1]) = 1}, {<<>>}, {0},
                  {F(0)}, {16})

\* No call of predict_gmm_models or same_different_task is made.
IdleScore ==
    /\ s_keys = <<>>
    /\ s_ll = <<>>
    /\ p_ret = [done |-> FALSE, query |-> "none", speaker |-> "none",
                probs |-> <<>>]
    /\ sd_ret = [done |-> FALSE, decision |-> 0, probs |-> <<>>]

InitAdapt ==
    InitAdaptWith(AdaptScenarios, AdaptPaths, 0..MaxIter, Thresholds,
                  RelevanceFactors)

\* One UBM and one iteration, every output path of at most MaxPathLen characters.
InitAdaptPath ==
    InitAdaptWith({sc \in AdaptScenarios : Len(sc.X[1]) = 1},
                  FilePathsUpTo(MaxPathLen), {1}, {F(0)}, {16})

\* Lines 93-112: the copy, the output path and the initial values.
CallMapAdaptation ==
    /\ a_pc = "idle"
    /\ LET c == DeepCopy(ubm, heap)
           K == Len(c.heap[c.obj.means_])
           D == Len(a_in.X[1])
       IN  /\ gmm' = c.obj
           /\ heap' = c.heap
           /\ output_path' = StripOutputPath(a_in.output_path)
           /\ mu_new' = [i \in 1..K |-> [d \in 1..D |-> F(0)]]
           /\ n_k' = [i \in 1..K |-> F(0)]
           /\ mu_k' = c.obj.means_
           /\ old__likelihood' \in Score(c.heap[c.obj.means_])
    /\ new_likelihood' = F(0)
    /\ iterations' = 0
    /\ a_pc' = "loop"
    /\ UNCHANGED <<a_in, ubm, adaptation_coefficient, a_msg, a_files, a_ret>>
    /\ UNCHANGED notAdapt

\* Lines 114-138: one iteration of the loop.
AdaptIteration ==
    /\ a_pc = "loop"
    /\ LoopCondition
    /\ iterations' = iterations + 1
    /\ old__likelihood' = new_likelihood
    /\ \E z_n_k \in PredictProba(heap[gmm.means_], a_in.X) :
          LET K  == Len(heap[gmm.means_])
              nk == Occupancy(z_n_k, K)
              mn == [i \in 1..K |-> DataMean(z_n_k, a_in.X, nk, i)]
              co == Coefficient(nk, a_in.relevance_factor)
              mk == [k \in 1..K |-> AdaptMean(co[k], mn[k], heap[mu_k][k])]
          IN  /\ n_k' = nk
              /\ mu_new' = mn
              /\ adaptation_coefficient' = co
              /\ heap' = [heap EXCEPT ![mu_k] = mk]
              /\ gmm' = [gmm EXCEPT !.means_ = mu_k]
              /\ new_likelihood' \in Score(mk)
    /\ UNCHANGED <<a_pc, a_in, ubm, output_path, mu_k, a_msg, a_files, a_ret>>
    /\ UNCHANGED notAdapt

\* Lines 140-150: the convergence report, the file and the return.
AdaptReturn ==
    /\ a_pc = "loop"
    /\ ~LoopCondition
    /\ a_msg' = IF NotConverged(old__likelihood, new_likelihood,
                                a_in.likelihood_threshold)
                THEN "Warning: Maximum number of iterations reached."
                ELSE "Converged"
    /\ a_files' = IF output_path # <<>>
                  THEN (output_path \o GmmExt) :> Pickle(gmm, heap)
                  ELSE a_files
    /\ a_ret' = gmm
    /\ a_pc' = "done"
    /\ UNCHANGED <<a_in, heap, ubm, gmm, output_path, mu_new, n_k, mu_k,
                   adaptation_coefficient, old__likelihood, new_likelihood,
                   iterations>>
    /\ UNCHANGED notAdapt

NextAdapt == CallMapAdaptation \/ AdaptIteration \/ AdaptReturn

\* No model directory, and no call of train_gmm_models or load_gmm_models.
IdleStore ==
    /\ dir_exists = FALSE
    /\ entries = <<>>
    /\ t_pc = "idle"
    /\ t_in = [X |-> <<>>, speaker_names |-> <<>>, output_dir |-> <<>>,
               n_components |-> 0, dir_before |-> FALSE, entries_before |-> <<>>,
               call |-> 0, first_ret |-> <<>>]
    /\ t_todo = <<>>
    /\ gmm_models = <<>>
    /\ fit_calls = <<>>
    /\ t_err = "none"
    /\ t_ret = <<>>
    /\ l_pc = "idle"
    /\ l_todo = {}
    /\ l_models = <<>>
    /\ l_err = "none"
    /\ l_ret = <<>>

\* The two workers: the references of a GaussianMixture owned by o (0: the
\* caller's UBM).
Callers == {1, 2}

ObjectOf(o) == [id |-> o, means_ |-> <<o, "means">>,
                weights_ |-> <<o, "weights">>,
                covariances_ |-> <<o, "cov">>]

\* No concurrent calls of map_adaptation are made.
IdlePar ==
    /\ c_pc = [p \in Callers |-> "idle"]
    /\ c_in = <<>>
    /\ c_heap = <<>>
    /\ c_gmm = <<>>
    /\ c_lik = <<>>
    /\ c_iter = [p \in Callers |-> 0]
    /\ c_ret = <<>>

\* No call of extract_and_filter_zips is made.
IdleZip ==
    /\ z_pc = "idle"
    /\ z_in = <<>>
    /\ z_todo = {}
    /\ z_exists = FALSE
    /\ z_out = <<>>
    /\ z_err = "none"

\* No call of whisper_transcribe_align is made.
IdleWhisper ==
    /\ w_pc = "idle"
    /\ w_in = <<>>
    /\ w_todo = {}
    /\ w_fs = <<>>
    /\ w_log = {}

\* No call of detect_language is made.
IdleDetect ==
    /\ d_pc = "idle"
    /\ d_in = <<>>
    /\ n_frames = 0
    /\ d_i = 0
    /\ d_chunks = <<>>

\* No TextGridHandler is made.
IdleGrid ==
    /\ h_pc = "new"
    /\ h_in = <<>>
    /\ h_tiers = {}
    /\ h_tg = [xmin |-> 0, xmax |-> 0, tiers |-> <<>>]
    /\ h_added = 0
    /\ h_err = "none"

\* tg_helper.main is not run.
IdleMenu ==
    /\ m_pc = "start"
    /\ m_function = "none"
    /\ iMax = 0
    /\ output_filename = ""
    /\ m_prompts = 0

\* unzip_plus.main is not run.
IdleMain ==
    /\ u_pc = "start"
    /\ u_in = <<>>
    /\ u_answers = <<>>
    /\ u_msg = "none"
    /\ u_call = <<>>

\* map_adaptation alone, on every input of InitAdapt.
InitSpecAdapt == InitAdapt /\ IdleScore /\ IdleStore /\ IdlePar /\ IdleZip /\ IdleWhisper /\ IdleDetect /\ IdleGrid /\ IdleMenu /\ IdleMain

SpecAdapt == InitSpecAdapt /\ [][NextAdapt]_vars

\* map_adaptation alone, on every output path.
InitSpecAdaptPath ==
    InitAdaptPath /\ IdleScore /\ IdleStore /\ IdlePar /\ IdleZip /\ IdleWhisper /\ IdleDetect /\ IdleGrid /\ IdleMenu /\ IdleMain

SpecAdaptPath == InitSpecAdaptPath /\ [][NextAdapt]_vars

\* map_adaptation alone on one UBM, with every max_iter and every kind of
\* likelihood_threshold: negative, zero, positive, inf and nan.
InitSpecAdaptTerm ==
    /\ InitAdaptWith({sc \in AdaptScenarios : Len(sc.X[1]) = 1}, {<<>>},
                     0..MaxIter, {F(-1), F(0), F(1), Inf(1), NaN}, {0, 16})
    /\ IdleScore
    /\ IdleStore
    /\ IdlePar
    /\ IdleZip
    /\ IdleWhisper
    /\ IdleDetect
    /\ IdleGrid
    /\ IdleMenu
    /\ IdleMain

\* Weak fairness of AdaptIteration, WF_vars(AdaptIteration), written with the
\* action's guard: an iteration is possible exactly when the call is at line
\* 114 and the loop's condition holds.
FairIteration ==
    \/ []<>~(a_pc = "loop" /\ LoopCondition)
    \/ []<><<AdaptIteration>>_vars

\* map_adaptation is a sequential call: a call that can take its next step
\* takes it.
SpecAdaptTerm ==
    /\ InitSpecAdaptTerm
    /\ [][NextAdapt]_vars
    /\ WF_vars(CallMapAdaptation)
    /\ FairIteration
    /\ WF_vars(AdaptReturn)

(***************************************************************************)
(* Claims about map_adaptation.                                            *)
(***************************************************************************)
\* The means of the model being adapted.
Means == heap[gmm.means_]

\* C1: map_adaptation never mutates the UBM: at every point of the call the
\* UBM's means, weights and covariances are those it had before the call, and
\* the model returned is another object, none of whose arrays is an array of the
\* UBM.
C1_UbmNeverMutated ==
    /\ heap[ubm.means_] = a_in.ubm_value.means
    /\ heap[ubm.weights_] = a_in.ubm_value.weights
    /\ heap[ubm.covariances_] = a_in.ubm_value.covariances
    /\ a_pc = "done" =>
          /\ a_ret.id # ubm.id
          /\ {a_ret.means_, a_ret.weights_, a_ret.covariances_}
               \cap {ubm.means_, ubm.weights_, ubm.covariances_} = {}

\* C1's case: a call that returned after two iterations with adapted means that
\* differ from the UBM's.
C1_Witness ==
    /\ a_pc = "done"
    /\ iterations = 2
    /\ heap[a_ret.means_] # a_in.ubm_value.means

\* alpha * data + (1 - alpha) * prior, in every coordinate.
Blend(alpha, data, prior) ==
    [d \in 1..Len(prior) |->
        FAdd(FMul(alpha, data[d]), FMul(FSub(F(1), alpha), prior[d]))]

\* C2: after every iteration, the mean of each component k is
\* alpha_k * data_mean_k + (1 - alpha_k) * prior_mean_k, with prior_mean_k the
\* mean of component k in the original UBM and
\* alpha_k = n_k / (n_k + relevance_factor).
C2_PriorIsUbmMean ==
    (a_pc # "idle" /\ iterations >= 1) =>
        \A k \in 1..Len(Means) :
            /\ adaptation_coefficient[k]
                 = FDiv(n_k[k], FAdd(n_k[k], F(a_in.relevance_factor)))
            /\ Means[k] = Blend(adaptation_coefficient[k], mu_new[k],
                                a_in.ubm_value.means[k])

\* C3: with relevance_factor > 0, an iteration leaves the mean of a component
\* whose occupancy n_k is exactly 0 as it was, and the means stay finite.
C3_ZeroOccupancyKeepsMean ==
    [][(a_pc = "loop" /\ iterations' = iterations + 1
        /\ a_in.relevance_factor > 0) =>
          /\ \A k \in 1..Len(Means) :
                n_k'[k] = F(0) => heap'[gmm'.means_][k] = Means[k]
          /\ AllFinite(heap'[gmm'.means_])]_vars

\* os.path.splitext(p)[0]: p without its extension, the part of the last path
\* component from its last dot on (leading dots of the component do not count).
LastIndexOf(s, c) ==
    LET I == {i \in 1..Len(s) : s[i] = c} IN
    IF I = {} THEN 0 ELSE CHOOSE i \in I : \A j \in I : j <= i

SplitExtRoot(p) ==
    LET sep == LastIndexOf(p, "/")
        dot == LastIndexOf(p, ".")
    IN  IF dot > sep /\ \E i \in (sep + 1)..(dot - 1) : p[i] # "."
        THEN SubSeq(p, 1, dot - 1)
        ELSE p

\* C4: a call with a non-empty output_path writes exactly one file, at
\* output_path without its extension followed by '.gmm'.
C4_FileAtPathWithoutExtension ==
    (a_pc = "done" /\ a_in.output_path # <<>>) =>
        DOMAIN a_files = {SplitExtRoot(a_in.output_path) \o GmmExt}

\* C11: the model map_adaptation works on and returns has the mixture weights
\* and the covariances of the UBM, after any number of iterations; only its
\* means may differ.
C11_WeightsAndCovariancesRetained ==
    /\ a_pc # "idle" =>
          /\ heap[gmm.weights_] = a_in.ubm_value.weights
          /\ heap[gmm.covariances_] = a_in.ubm_value.covariances
    /\ a_pc = "done" =>
          /\ heap[a_ret.weights_] = a_in.ubm_value.weights
          /\ heap[a_ret.covariances_] = a_in.ubm_value.covariances

\* C11's case: a model returned after two iterations that changed its means.
C11_Witness ==
    /\ a_pc = "done"
    /\ iterations = 2
    /\ AllFinite(heap[a_ret.means_])
    /\ heap[a_ret.means_] # a_in.ubm_value.means
    /\ heap[a_ret.weights_] # <<>>

\* x lies between a and b (in either order), ends included.
Between(a, b, x) ==
    \/ FLe(a, x) /\ FLe(x, b)
    \/ FLe(b, x) /\ FLe(x, a)

\* C12: with relevance_factor > 0, one iteration on a model with finite means
\* gives every component of nonzero occupancy a coefficient in [0, 1) and a
\* mean that lies, in every coordinate, between the component's mean before the
\* iteration (its prior mean) and its data-driven mean.
C12_ConvexCombination ==
    [][(/\ a_pc = "loop"
        /\ iterations' = iterations + 1
        /\ a_in.relevance_factor > 0
        /\ AllFinite(Means)) =>
          \A k \in 1..Len(Means) :
              n_k'[k] # F(0) =>
                  /\ FLe(F(0), adaptation_coefficient'[k])
                  /\ FGt(F(1), adaptation_coefficient'[k])
                  /\ \A d \in 1..Len(Means[k]) :
                        Between(Means[k][d], mu_new'[k][d],
                                heap'[gmm'.means_][k][d])]_vars

\* C12's case: after the first iteration with relevance_factor > 0, a component
\* of nonzero occupancy has a mean strictly between the UBM's and the data's.
C12_Witness ==
    /\ a_pc = "loop"
    /\ iterations = 1
    /\ a_in.relevance_factor > 0
    /\ \E k \in 1..Len(Means) :
          /\ n_k[k] # F(0)
          /\ IsFin(Means[k][1])
          /\ Means[k][1] # a_in.ubm_value.means[k][1]
          /\ Means[k][1] # mu_new[k][1]

\* C13: map_adaptation terminates and performs at most max_iter iterations,
\* whatever the likelihood_threshold; with max_iter = 0 it performs none and
\* the model it returns has the means, weights and covariances of the UBM.
C13_TerminatesWithinMaxIter ==
    /\ [](/\ iterations <= a_in.max_iter
          /\ (a_pc = "done" /\ a_in.max_iter = 0) =>
                /\ iterations = 0
                /\ heap[a_ret.means_] = a_in.ubm_value.means
                /\ heap[a_ret.weights_] = a_in.ubm_value.weights
                /\ heap[a_ret.covariances_] = a_in.ubm_value.covariances)
    /\ <>(a_pc = "done")

\* C13's case: a call with a negative likelihood_threshold, which no change of
\* the likelihood gets under, stopped by max_iter = 2.
C13_Witness ==
    /\ a_pc = "done"
    /\ a_in.likelihood_threshold = F(-1)
    /\ a_in.max_iter = 2
    /\ iterations = 2
    /\ a_msg = "Warning: Maximum number of iterations reached."

\* C18: the log-likelihood values of successive iterations are non-decreasing.
\* The value of score(X) for a model with finite means is an input here, so
\* the formula states what the claim needs of the code's own arithmetic: every
\* value an iteration computes is a number (nan is not ordered: no value is
\* at most nan, and nan is at most no value).
C18_LikelihoodNonDecreasing ==
    [][(a_pc = "loop" /\ iterations' = iterations + 1 /\ iterations >= 1) =>
          \/ FLe(new_likelihood, new_likelihood')
          \/ IsFin(new_likelihood) /\ IsFin(new_likelihood')]_vars


\* C23: the stopping test compares the log-likelihoods of two consecutive
\* model states: with L_0 the UBM's log-likelihood (old__likelihood before the
\* first iteration) and L_t the value iteration t computes, the loop does not
\* go on after iteration t when |L_t - L_(t-1)| <= likelihood_threshold.
C23_StopsOnConsecutiveChange ==
    [][(a_pc = "loop" /\ iterations' = iterations + 1) =>
          LET previous == IF iterations = 0 THEN old__likelihood
                          ELSE new_likelihood
          IN  FLe(FAbs(FSub(new_likelihood', previous)),
                  a_in.likelihood_threshold) => ~LoopCondition']_vars

\* C24: a call that returned has reported one status: 'Converged' exactly
\* when the absolute difference of the two log-likelihoods it holds is at most
\* likelihood_threshold, the warning otherwise, and the warning only after
\* max_iter iterations.
C24_OneStatusPerCall ==
    a_pc = "done" =>
        /\ a_msg \in {"Converged",
                      "Warning: Maximum number of iterations reached."}
        /\ a_msg = "Converged" <=>
              FLe(FAbs(FSub(old__likelihood, new_likelihood)),
                  a_in.likelihood_threshold)
        /\ a_msg = "Warning: Maximum number of iterations reached." =>
              iterations = a_in.max_iter

(***************************************************************************)
(* Concurrent calls of map_adaptation.                                     *)
(*                                                                         *)
(* predict_proba and score are functions of the model and the data; they   *)
(* are represented by the responsibilities and the score of the mixture    *)
(* with sharp components: each frame belongs to its nearest mean.          *)
(***************************************************************************)
\* The distance of a frame and a mean.
Dist(x, m) == FSum([d \in 1..Len(x) |-> FAbs(FSub(x[d], m[d]))], Len(x))

\* gmm.predict_proba(X) (line 119): a frame is shared by the means nearest to
\* it; nan everywhere for a model with a nan or inf mean.
HardResp(means, X) ==
    IF ~AllFinite(means)
    THEN [n \in 1..Len(X) |-> [i \in 1..Len(means) |-> NaN]]
    ELSE [n \in 1..Len(X) |->
            LET nearest(i) == \A j \in 1..Len(means) :
                                 FLe(Dist(X[n], means[i]), Dist(X[n], means[j]))
                count == Cardinality({i \in 1..Len(means) : nearest(i)})
            IN  [i \in 1..Len(means) |->
                    IF nearest(i) THEN Rat(1, count) ELSE F(0)]]

\* gmm.score(X) (lines 109, 137): minus the mean distance of a frame
\* and its nearest mean; nan for a model with a nan or inf mean.
MeanScore(means, X) ==
    IF ~AllFinite(means) THEN NaN
    ELSE LET z == HardResp(means, X)
             loss(n) == FSum([i \in 1..Len(means) |->
                                 FMul(z[n][i], Dist(X[n], means[i]))],
                             Len(means))
         IN  FNeg(FDiv(FSum([n \in 1..Len(X) |-> loss(n)], Len(X)),
                       F(Len(X))))

\* Lines 119-134: the means after one iteration on the means given.
AdaptedMeans(means, X, relevance_factor) ==
    LET z_n_k == HardResp(means, X)
        nk == Occupancy(z_n_k, Len(means))
        co == Coefficient(nk, relevance_factor)
    IN  [k \in 1..Len(means) |->
            AdaptMean(co[k], DataMean(z_n_k, X, nk, k), means[k])]

\* deepcopy(ubm) (line 93) in the call of worker p.
AliasOf(p, o, h) == [obj |-> o, heap |-> h]

CopyOf(p, o, h) ==
    [obj  |-> ObjectOf(p),
     heap |-> [r \in DOMAIN h \cup {<<p, "means">>, <<p, "weights">>, <<p, "cov">>} |->
                  CASE r = <<p, "means">> -> h[o.means_]
                    [] r = <<p, "weights">> -> h[o.weights_]
                    [] r = <<p, "cov">> -> h[o.covariances_]
                    [] OTHER -> h[r]]]

\* Two workers adapt one UBM toward the data of two different speakers.
InitPar ==
    /\ c_pc = [p \in Callers |-> "idle"]
    /\ \E X \in [Callers -> { FMat(<< <<1>>, <<6>> >>), FMat(<< <<1>>, <<3>> >>),
                               FMat(<< <<5>>, <<6>> >>) }],
          mi \in [Callers -> 0..MaxIter], rf \in {1, 2} :
          /\ X[1] # X[2]
          /\ c_in = [X |-> X, max_iter |-> mi, relevance_factor |-> rf,
                     likelihood_threshold |-> F(0),
                     ubm_value |-> [means |-> FMat(<< <<0>>, <<4>> >>),
                                    weights |-> UbmWeights,
                                    covariances |->
                                        UbmCovariances(FMat(<< <<0>>, <<4>> >>))]]
    /\ c_heap = (<<0, "means">> :> c_in.ubm_value.means)
                  @@ (<<0, "weights">> :> c_in.ubm_value.weights)
                  @@ (<<0, "cov">> :> c_in.ubm_value.covariances)
    /\ c_gmm = [p \in Callers |-> NoObject]
    /\ c_lik = [p \in Callers |-> [old |-> F(0), new |-> F(0)]]
    /\ c_iter = [p \in Callers |-> 0]
    /\ c_ret = [p \in Callers |-> NoObject]

\* Lines 93-112 in worker p.
ParCall(p) ==
    /\ c_pc[p] = "idle"
    /\ LET c == CopyOf(p, ObjectOf(0), c_heap)
       IN  /\ c_gmm' = [c_gmm EXCEPT ![p] = c.obj]
           /\ c_heap' = c.heap
           /\ c_lik' = [c_lik EXCEPT ![p] =
                           [old |-> MeanScore(c.heap[c.obj.means_], c_in.X[p]),
                            new |-> F(0)]]
    /\ c_iter' = [c_iter EXCEPT ![p] = 0]
    /\ c_pc' = [c_pc EXCEPT ![p] = "loop"]
    /\ UNCHANGED <<c_in, c_ret>>
    /\ UNCHANGED notPar

\* Line 114 in worker p.
ParLoopCondition(p) ==
    /\ NotConverged(c_lik[p].old, c_lik[p].new, c_in.likelihood_threshold)
    /\ c_iter[p] < c_in.max_iter[p]

\* Lines 114-138 in worker p: one iteration, written through mu_k.
ParIteration(p) ==
    /\ c_pc[p] = "loop"
    /\ ParLoopCondition(p)
    /\ LET mu_k_ref == c_gmm[p].means_
           mk == AdaptedMeans(c_heap[mu_k_ref], c_in.X[p], c_in.relevance_factor)
       IN  /\ c_heap' = [c_heap EXCEPT ![mu_k_ref] = mk]
           /\ c_lik' = [c_lik EXCEPT ![p] =
                           [old |-> c_lik[p].new,
                            new |-> MeanScore(mk, c_in.X[p])]]
    /\ c_iter' = [c_iter EXCEPT ![p] = @ + 1]
    /\ UNCHANGED <<c_pc, c_in, c_gmm, c_ret>>
    /\ UNCHANGED notPar

\* Line 150 in worker p.
ParReturn(p) ==
    /\ c_pc[p] = "loop"
    /\ ~ParLoopCondition(p)
    /\ c_ret' = [c_ret EXCEPT ![p] = c_gmm[p]]
    /\ c_pc' = [c_pc EXCEPT ![p] = "done"]
    /\ UNCHANGED <<c_in, c_heap, c_gmm, c_lik, c_iter>>
    /\ UNCHANGED notPar

NextPar == \E p \in Callers : ParCall(p) \/ ParIteration(p) \/ ParReturn(p)

InitSpecPar == IdleAdapt /\ IdleScore /\ IdleStore /\ InitPar /\ IdleZip /\ IdleWhisper /\ IdleDetect /\ IdleGrid /\ IdleMenu /\ IdleMain

SpecPar == InitSpecPar /\ [][NextPar]_vars

\* The call of worker p run alone: the means and the number of iterations it
\* ends with, from the means, the likelihoods and the count given.
RECURSIVE AloneFrom(_, _, _, _, _)
AloneFrom(p, means, old, new, count) ==
    IF /\ NotConverged(old, new, c_in.likelihood_threshold)
       /\ count < c_in.max_iter[p]
    THEN LET mk == AdaptedMeans(means, c_in.X[p], c_in.relevance_factor)
         IN  AloneFrom(p, mk, new, MeanScore(mk, c_in.X[p]), count + 1)
    ELSE [means |-> means, iterations |-> count]

Alone(p) ==
    AloneFrom(p, c_in.ubm_value.means,
              MeanScore(c_in.ubm_value.means, c_in.X[p]), F(0), 0)

\* C16: two calls on one UBM are independent under every interleaving: the UBM
\* keeps its arrays' values, the two calls work on different arrays, none of
\* them the UBM's, and each returns the model it returns when run alone.
C16_ConcurrentCallsIndependent ==
    /\ c_heap[<<0, "means">>] = c_in.ubm_value.means
    /\ c_heap[<<0, "weights">>] = c_in.ubm_value.weights
    /\ c_heap[<<0, "cov">>] = c_in.ubm_value.covariances
    /\ \A p \in Callers :
          c_pc[p] # "idle" =>
              /\ c_gmm[p].means_[1] = p
              /\ c_gmm[p].weights_[1] = p
              /\ c_gmm[p].covariances_[1] = p
    /\ \A p \in Callers :
          c_pc[p] = "done" =>
              /\ c_heap[c_ret[p].means_] = Alone(p).means
              /\ c_heap[c_ret[p].weights_] = c_in.ubm_value.weights
              /\ c_heap[c_ret[p].covariances_] = c_in.ubm_value.covariances
              /\ c_iter[p] = Alone(p).iterations

\* C16's case: both calls have returned after two iterations each, with
\* different finite means, neither the UBM's.
C16_Witness ==
    /\ \A p \in Callers :
          /\ c_pc[p] = "done"
          /\ c_iter[p] = 2
          /\ AllFinite(c_heap[c_ret[p].means_])
          /\ c_heap[c_ret[p].means_] # c_in.ubm_value.means
    /\ c_heap[c_ret[1].means_] # c_heap[c_ret[2].means_]

(***************************************************************************)
(* predict_gmm_models and same_different_task.                             *)
(*                                                                         *)
(* A query x is given by the log-likelihoods gmm.score(x) of the speakers' *)
(* models, which are integers here.  exp is modelled by the powers of two: *)
(* like e^x, 2^x is increasing, one-to-one and turns sums into products,   *)
(* and the values stay rationals.                                          *)
(***************************************************************************)
\* The dicts speaker_models tried: their keys in iteration order.
SpeakerDicts == { <<"A">>, <<"A", "B">>, <<"B", "A">>, <<"A", "B", "C">> }

\* The values of gmm.score(x).
LogLikelihoods == {-2, -1, 0}

Queries == {"x1", "x2"}

Range(f) == {f[i] : i \in DOMAIN f}

RECURSIVE Pow2(_)
Pow2(n) == IF n = 0 THEN 1 ELSE 2 * Pow2(n - 1)

\* np.exp(x): inf once the result is out of the float range.
Exp(x) ==
    IF x <= 0 THEN Rat(1, Pow2(-x))
    ELSE IF x > ExpOverflow THEN Inf(1)
    ELSE F(Pow2(x))

\* exp(x) / sum(exp(x)) as it is written, without the maximum subtracted.
SoftmaxNaive(row) ==
    LET e == [i \in 1..Len(row) |-> Exp(row[i])]
        sum_of_row == FSum(e, Len(row))
    IN  [i \in 1..Len(row) |-> FDiv(e[i], sum_of_row)]

\* sklearn.utils.extmath.softmax of one row (lines 199-200): subtract the
\* maximum, exponentiate, divide by the sum.
Softmax(row) ==
    LET max_prob == CHOOSE m \in Range(row) : \A v \in Range(row) : v <= m
        e == [i \in 1..Len(row) |-> Exp(row[i] - max_prob)]
        sum_of_row == FSum(e, Len(row))
    IN  [i \in 1..Len(row) |-> FDiv(e[i], sum_of_row)]

\* max(log_likelihoods, key=log_likelihoods.get) (line 204): the first key, in
\* iteration order, whose value is the largest.
MaxKeyLast(keys, ll) ==
    LET i == CHOOSE j \in 1..Len(keys) :
                /\ \A h \in 1..Len(keys) : ll[keys[h]] <= ll[keys[j]]
                /\ \A h \in (j + 1)..Len(keys) : ll[keys[h]] < ll[keys[j]]
    IN  keys[i]

MaxKey(keys, ll) ==
    LET i == CHOOSE j \in 1..Len(keys) :
                /\ \A h \in 1..Len(keys) : ll[keys[h]] <= ll[keys[j]]
                /\ \A h \in 1..(j - 1) : ll[keys[h]] < ll[keys[j]]
    IN  keys[i]

\* predict_gmm_models(x, speaker_models) (lines 194-204); ll is x's
\* log-likelihood under each speaker's model (lines 194-196).
PredictGmmModels(keys, ll) ==
    LET probs == Softmax([i \in 1..Len(keys) |-> ll[keys[i]]])
        index(sp) == CHOOSE i \in 1..Len(keys) : keys[i] = sp
    IN  [speaker |-> MaxKey(keys, ll),
         probs |-> [sp \in Range(keys) |-> probs[index(sp)]]]

\* Line 231: same_speaker_prob.
SameSpeakerProbOwnTop(s1, s2, probs_dict1, probs_dict2) ==
    FMul(probs_dict1[s1], probs_dict2[s2])

SameSpeakerProb(s1, s2, probs_dict1, probs_dict2) ==
    FMul(probs_dict1[s1], probs_dict2[s1])

\* same_different_task(x1, x2, speaker_models) (lines 227-235).
SameDifferentTaskByProb(keys, ll1, ll2) ==
    LET r1 == PredictGmmModels(keys, ll1)
        r2 == PredictGmmModels(keys, ll2)
        same_speaker_prob ==
            SameSpeakerProb(r1.speaker, r2.speaker, r1.probs, r2.probs)
    IN  [decision |-> IF FGt(same_speaker_prob, Rat(1, 2)) THEN 1 ELSE 0,
         probs |-> <<same_speaker_prob, FSub(F(1), same_speaker_prob)>>]

SameDifferentTask(keys, ll1, ll2) ==
    LET r1 == PredictGmmModels(keys, ll1)
        r2 == PredictGmmModels(keys, ll2)
        same_speaker_prob ==
            SameSpeakerProb(r1.speaker, r2.speaker, r1.probs, r2.probs)
        diff_speaker_prob == FSub(F(1), same_speaker_prob)
    IN  [decision |-> IF r1.speaker = r2.speaker THEN 1 ELSE 0,
         probs |-> <<same_speaker_prob, diff_speaker_prob>>]

InitScore ==
    /\ s_keys \in SpeakerDicts
    /\ s_ll \in [Queries -> [Range(s_keys) -> LogLikelihoods]]
    /\ p_ret = [done |-> FALSE, query |-> "none", speaker |-> "none",
                probs |-> <<>>]
    /\ sd_ret = [done |-> FALSE, decision |-> 0, probs |-> <<>>]

\* A call predict_gmm_models(q, speaker_models).
CallPredict ==
    /\ \E q \in Queries :
          LET r == PredictGmmModels(s_keys, s_ll[q])
          IN  p_ret' = [done |-> TRUE, query |-> q, speaker |-> r.speaker,
                        probs |-> r.probs]
    /\ UNCHANGED <<s_keys, s_ll, sd_ret>>
    /\ UNCHANGED notScore

\* A call same_different_task(x1, x2, speaker_models).
CallSameDifferent ==
    /\ LET r == SameDifferentTask(s_keys, s_ll["x1"], s_ll["x2"])
       IN  sd_ret' = [done |-> TRUE, decision |-> r.decision, probs |-> r.probs]
    /\ UNCHANGED <<s_keys, s_ll, p_ret>>
    /\ UNCHANGED notScore

NextScore == CallPredict \/ CallSameDifferent

\* The scorer alone.
InitSpecScore == IdleAdapt /\ InitScore /\ IdleStore /\ IdlePar /\ IdleZip /\ IdleWhisper /\ IdleDetect /\ IdleGrid /\ IdleMenu /\ IdleMain

SpecScore == InitSpecScore /\ [][NextScore]_vars

(***************************************************************************)
(* Claims about the scorer.                                                *)
(***************************************************************************)
\* The probability of speaker sp for query q: 2^ll(sp) over the sum of the
\* 2^ll(t), written without the subtraction of the maximum.
ProbOf(q, sp) ==
    LET lo == CHOOSE m \in Range(s_ll[q]) : \A v \in Range(s_ll[q]) : m <= v
        w(t) == Pow2(s_ll[q][t] - lo)
        total == FSum([i \in 1..Len(s_keys) |-> F(w(s_keys[i]))], Len(s_keys))
    IN  FDiv(F(w(sp)), total)

\* The top speaker of query q: the first of the dict with the largest
\* log-likelihood.
TopOf(q) ==
    LET best(i) == \A h \in 1..Len(s_keys) : s_ll[q][s_keys[h]] <= s_ll[q][s_keys[i]]
        i == CHOOSE j \in 1..Len(s_keys) :
                best(j) /\ \A h \in 1..(j - 1) : ~best(h)
    IN  s_keys[i]

\* C5 as claimed: the 'same speaker' probability returned is the product of
\* each query's probability at its own top speaker, probs1[s1] * probs2[s2].
C5_ProductAtOwnTopSpeakers ==
    sd_ret.done =>
        sd_ret.probs[1] = FMul(ProbOf("x1", TopOf("x1")), ProbOf("x2", TopOf("x2")))

\* C5 as amended: the 'same speaker' probability returned is
\* probs1[s1] * probs2[s1], both queries' probabilities at the top speaker s1
\* of x1, and the 'different speaker' probability is one minus it.
C5_ProductAtTopSpeakerOfX1 ==
    sd_ret.done =>
        /\ sd_ret.probs[1]
             = FMul(ProbOf("x1", TopOf("x1")), ProbOf("x2", TopOf("x1")))
        /\ sd_ret.probs[2] = FSub(F(1), sd_ret.probs[1])

\* C5's case: the two queries have different top speakers, and x2 gives them
\* different probabilities.
C5_Witness ==
    /\ sd_ret.done
    /\ TopOf("x1") # TopOf("x2")
    /\ ProbOf("x2", TopOf("x1")) # ProbOf("x2", TopOf("x2"))

\* C14: predict_gmm_models returns a probability for exactly the keys of
\* speaker_models, and the speaker it returns has the largest log-likelihood,
\* hence the largest probability, and is the first such key of the dict.
C14_ArgMaxFirstOnTies ==
    p_ret.done =>
        LET ll == s_ll[p_ret.query]
            at == CHOOSE i \in 1..Len(s_keys) : s_keys[i] = p_ret.speaker
        IN  /\ DOMAIN p_ret.probs = Range(s_keys)
            /\ p_ret.speaker \in Range(s_keys)
            /\ \A sp \in Range(s_keys) :
                  /\ ll[sp] <= ll[p_ret.speaker]
                  /\ FLe(p_ret.probs[sp], p_ret.probs[p_ret.speaker])
            /\ \A i \in 1..(at - 1) : ll[s_keys[i]] < ll[p_ret.speaker]

\* C14's case: of three speakers the second and the third tie for the largest
\* log-likelihood, and the second is returned.
C14_Witness ==
    /\ p_ret.done
    /\ Len(s_keys) = 3
    /\ LET ll == s_ll[p_ret.query]
       IN  /\ ll[s_keys[1]] < ll[s_keys[2]]
           /\ ll[s_keys[2]] = ll[s_keys[3]]
    /\ p_ret.speaker = s_keys[2]

\* C15: the decision of same_different_task is 1 when predict_gmm_models
\* returns the same speaker for x1 and x2 and 0 otherwise, whatever the
\* probabilities, and it is the decision of the call with x1 and x2 swapped.
C15_DecisionBySameTopSpeaker ==
    sd_ret.done =>
        LET s1 == PredictGmmModels(s_keys, s_ll["x1"]).speaker
            s2 == PredictGmmModels(s_keys, s_ll["x2"]).speaker
        IN  /\ sd_ret.decision = 1 <=> s1 = s2
            /\ sd_ret.decision = 0 <=> s1 # s2
            /\ sd_ret.decision
                 = SameDifferentTask(s_keys, s_ll["x2"], s_ll["x1"]).decision

\* C15's case: both queries have the same top speaker with a 'same speaker'
\* probability under one half, and the decision is 1.
C15_Witness ==
    /\ sd_ret.done
    /\ sd_ret.decision = 1
    /\ FGt(Rat(1, 2), sd_ret.probs[1])
    /\ s_ll["x1"] # s_ll["x2"]

\* The constants added to every log-likelihood.
Shifts == {-8, 8}

\* C17: the probabilities predict_gmm_models returns sum to 1, each lies in
\* [0, 1], and they are the probabilities returned when a constant is added to
\* every speaker's log-likelihood.
C17_ProbabilitiesShiftInvariant ==
    p_ret.done =>
        /\ FSum([i \in 1..Len(s_keys) |-> p_ret.probs[s_keys[i]]], Len(s_keys))
             = F(1)
        /\ \A sp \in Range(s_keys) :
              FLe(F(0), p_ret.probs[sp]) /\ FLe(p_ret.probs[sp], F(1))
        /\ \A c \in Shifts :
              PredictGmmModels(s_keys,
                  [sp \in Range(s_keys) |-> s_ll[p_ret.query][sp] + c]).probs
                = p_ret.probs

\* C17's case: three speakers with three different probabilities.
C17_Witness ==
    /\ p_ret.done
    /\ Len(s_keys) = 3
    /\ Cardinality({p_ret.probs[sp] : sp \in Range(s_keys)}) = 3


(***************************************************************************)
(* train_gmm_models and load_gmm_models.                                   *)
(*                                                                         *)
(* A fitted GaussianMixture is represented by what determines its          *)
(* weights_, means_ and covariances_ (random_state is fixed): the frames   *)
(* it was fitted on and n_components.  A feature matrix is the sequence of *)
(* its frames; file i of X holds the one frame i.                          *)
(***************************************************************************)
\* The speaker labels tried.
SpeakerLabels == { <<"a">>, <<"b">>, <<"a", ".", "g", "m", "m">> }

\* The code point of a character (the order of Python's str comparison).
CodePoint(c) ==
    CASE c = "." -> 46 [] c = "a" -> 97 [] c = "b" -> 98 [] c = "g" -> 103
      [] c = "m" -> 109 [] c = "n" -> 110 [] c = "t" -> 116 [] c = "x" -> 120

\* s < t for two strings.
RECURSIVE StrLess(_, _)
StrLess(s, t) ==
    IF t = <<>> THEN FALSE
    ELSE IF s = <<>> THEN TRUE
    ELSE IF Head(s) = Head(t) THEN StrLess(Tail(s), Tail(t))
    ELSE CodePoint(Head(s)) < CodePoint(Head(t))

\* The strings of a set in increasing order.
RECURSIVE Sorted(_)
Sorted(S) ==
    IF S = {} THEN <<>>
    ELSE LET least == CHOOSE s \in S : \A t \in S \ {s} : StrLess(s, t)
         IN  <<least>> \o Sorted(S \ {least})

\* np.unique(speaker_names) (line 50): the distinct labels, sorted.
Unique(speaker_names) == Sorted(Range(speaker_names))

\* Lines 51-56: X[speaker_names == speaker], joined along the frame axis (one
\* selected file is used as it is).
RECURSIVE SelectFrames(_, _, _, _)
SelectFrames(X, speaker_names, speaker, i) ==
    IF i > Len(speaker_names) \/ i > Len(X) THEN <<>>
    ELSE (IF speaker_names[i] = speaker THEN X[i] ELSE <<>>)
         \o SelectFrames(X, speaker_names, speaker, i + 1)

SpeakerFeatures(X, speaker_names, speaker) ==
    SelectFrames(X, speaker_names, speaker, 1)

NoModel == [n_components |-> 0, fitted_on |-> <<>>]

\* Lines 57-59: the model gmm.fit(speaker_features) finds.
Fit(speaker_features, n_components) ==
    [n_components |-> n_components, fitted_on |-> speaker_features]

\* gmm.fit raises ValueError when it is given fewer frames than components.
FitFails(speaker_features, n_components) == Len(speaker_features) < n_components

\* A dump that leaves the file empty.
PickleDumpNothing(model) == [tag |-> "garbage", obj |-> model]

\* pickle.dump (line 62) and pickle.load (line 171) of a model.
PickleDump(model) == [tag |-> "pickle", obj |-> model]

\* pickle.load raises no error.
UnpicklesAnything(content) == TRUE

Unpickles(content) == content.tag = "pickle"

PickleLoad(content) == content.obj

\* A file that holds no pickle, and an entry that is a directory.
Garbage == [tag |-> "garbage", obj |-> NoModel]

Directory == [tag |-> "dir", obj |-> NoModel]

\* A model pickled by an earlier run.
OldPickle == PickleDump([n_components |-> 1, fitted_on |-> <<0>>])

\* Line 61: the name of a speaker's file in output_dir.
ModelFileNameLiteral(speaker) == <<"x">> \o GmmExt

ModelFileName(speaker) == speaker \o GmmExt

\* Lines 43-47: the check of the shapes, then the creation of output_dir.
TrainSetupNoExistsTest(X, speaker_names, output_dir, exists) ==
    IF Len(X) # Len(speaker_names)
    THEN [err |-> "ValueError", dir_exists |-> exists]
    ELSE IF output_dir # <<>> /\ exists
    THEN [err |-> "FileExistsError", dir_exists |-> exists]
    ELSE [err |-> "none", dir_exists |-> exists \/ output_dir # <<>>]

TrainSetupLate(X, speaker_names, output_dir, exists) ==
    [err |-> IF Len(X) # Len(speaker_names) THEN "ValueError" ELSE "none",
     dir_exists |-> exists \/ output_dir # <<>>]

TrainSetup(X, speaker_names, output_dir, exists) ==
    IF Len(X) # Len(speaker_names)
    THEN [err |-> "ValueError", dir_exists |-> exists]
    ELSE [err |-> "none", dir_exists |-> exists \/ output_dir # <<>>]

\* The entries a directory may hold before the calls.
EntryChoices ==
    { [name |-> <<"a">> \o GmmExt, content |-> OldPickle],
      [name |-> <<"a">> \o GmmExt \o GmmExt, content |-> OldPickle],
      [name |-> <<"b">> \o GmmExt, content |-> Garbage],
      [name |-> <<"b">> \o GmmExt, content |-> Directory],
      [name |-> <<"n", ".", "t", "x", "t">>, content |-> Garbage] }

\* The directories of at most n entries.
DirectoriesUpTo(n) ==
    LET ok(S) == /\ Cardinality(S) <= n
                 /\ \A e1, e2 \in S : e1.name = e2.name => e1 = e2
    IN  { [name \in {e.name : e \in S} |->
              (CHOOSE e \in S : e.name = name).content] :
          S \in {T \in SUBSET EntryChoices : ok(T)} }

\* The sequences over S of at most n elements.
SeqsUpTo(S, n) == UNION {[1..k -> S] : k \in 0..n}

InitStore ==
    /\ dir_exists \in BOOLEAN
    /\ entries \in (IF dir_exists THEN DirectoriesUpTo(MaxDirEntries) ELSE {<<>>})
    /\ t_pc = "idle"
    /\ t_in = [X |-> <<>>, speaker_names |-> <<>>, output_dir |-> <<>>,
               n_components |-> 0, dir_before |-> FALSE, entries_before |-> <<>>,
               call |-> 0, first_ret |-> <<>>]
    /\ t_todo = <<>>
    /\ gmm_models = <<>>
    /\ fit_calls = <<>>
    /\ t_err = "none"
    /\ t_ret = <<>>
    /\ l_pc = "idle"
    /\ l_todo = {}
    /\ l_models = <<>>
    /\ l_err = "none"
    /\ l_ret = <<>>

\* Lines 43-49: the call, the check, the directory and the empty dict.
CallTrain ==
    /\ t_pc = "idle"
    /\ l_pc = "idle"
    /\ \E nx \in 0..MaxFiles, names \in SeqsUpTo(SpeakerLabels, MaxFiles),
          out \in {<<>>, <<"o">>}, nc \in {1, 2} :
          LET X == [i \in 1..nx |-> <<i>>]
              r == TrainSetup(X, names, out, dir_exists)
          IN  /\ t_in' = [X |-> X, speaker_names |-> names, output_dir |-> out,
                          n_components |-> nc, dir_before |-> dir_exists,
                          entries_before |-> entries, call |-> 1,
                          first_ret |-> <<>>]
              /\ dir_exists' = r.dir_exists
              /\ t_err' = r.err
              /\ t_pc' = IF r.err = "none" THEN "loop" ELSE "error"
              /\ t_todo' = IF r.err = "none" THEN Unique(names) ELSE <<>>
    /\ gmm_models' = <<>>
    /\ UNCHANGED <<entries, fit_calls, t_ret, l_pc, l_todo, l_models, l_err, l_ret>>
    /\ UNCHANGED notStore

\* A second call of train_gmm_models with the arguments of the first, which
\* has returned; t_in keeps what the first call returned and the directory it
\* left.
CallTrainAgain ==
    /\ t_pc = "done"
    /\ t_in.call = 1
    /\ l_pc = "idle"
    /\ LET r == TrainSetup(t_in.X, t_in.speaker_names, t_in.output_dir,
                           dir_exists)
       IN  /\ t_in' = [t_in EXCEPT !.call = 2, !.dir_before = dir_exists,
                                   !.entries_before = entries,
                                   !.first_ret = t_ret]
           /\ dir_exists' = r.dir_exists
           /\ t_err' = r.err
           /\ t_pc' = IF r.err = "none" THEN "loop" ELSE "error"
           /\ t_todo' = IF r.err = "none" THEN Unique(t_in.speaker_names)
                        ELSE <<>>
    /\ gmm_models' = <<>>
    /\ fit_calls' = <<>>
    /\ t_ret' = <<>>
    /\ UNCHANGED <<entries, l_pc, l_todo, l_models, l_err, l_ret>>
    /\ UNCHANGED notStore

\* Lines 50-63: one speaker: the features, the fit, the file, the dict entry.
TrainSpeaker ==
    /\ t_pc = "loop"
    /\ t_todo # <<>>
    /\ LET speaker == Head(t_todo)
           speaker_features == SpeakerFeatures(t_in.X, t_in.speaker_names, speaker)
           model == Fit(speaker_features, t_in.n_components)
           file == ModelFileName(speaker)
       IN  /\ fit_calls' = Append(fit_calls, speaker)
           /\ IF FitFails(speaker_features, t_in.n_components)
              THEN /\ t_pc' = "error"
                   /\ t_err' = "ValueError"
                   /\ UNCHANGED <<entries, gmm_models, t_todo>>
              ELSE IF /\ t_in.output_dir # <<>>
                      /\ file \in DOMAIN entries
                      /\ entries[file] = Directory
              THEN /\ t_pc' = "error"
                   /\ t_err' = "IsADirectoryError"
                   /\ UNCHANGED <<entries, gmm_models, t_todo>>
              ELSE /\ entries' = IF t_in.output_dir # <<>>
                                 THEN [n \in DOMAIN entries \cup {file} |->
                                          IF n = file THEN PickleDump(model)
                                          ELSE entries[n]]
                                 ELSE entries
                   /\ gmm_models' = [sp \in DOMAIN gmm_models \cup {speaker} |->
                                        IF sp = speaker THEN model
                                        ELSE gmm_models[sp]]
                   /\ t_todo' = Tail(t_todo)
                   /\ UNCHANGED <<t_pc, t_err>>
    /\ UNCHANGED <<dir_exists, t_in, t_ret, l_pc, l_todo, l_models, l_err, l_ret>>
    /\ UNCHANGED notStore

\* Line 65.
TrainReturn ==
    /\ t_pc = "loop"
    /\ t_todo = <<>>
    /\ t_ret' = gmm_models
    /\ t_pc' = "done"
    /\ UNCHANGED <<dir_exists, entries, t_in, t_todo, gmm_models, fit_calls,
                   t_err, l_pc, l_todo, l_models, l_err, l_ret>>
    /\ UNCHANGED notStore


\* file.endswith(suffix) (line 169).
EndsWith(s, suffix) ==
    /\ Len(s) >= Len(suffix)
    /\ SubSeq(s, Len(s) - Len(suffix) + 1, Len(s)) = suffix

\* s.replace(old, new) (line 171): every occurrence of old, from the left.
RECURSIVE Replace(_, _, _)
Replace(s, old, new) ==
    IF Len(s) < Len(old) THEN s
    ELSE IF SubSeq(s, 1, Len(old)) = old
         THEN new \o Replace(SubSeq(s, Len(old) + 1, Len(s)), old, new)
         ELSE <<Head(s)>> \o Replace(Tail(s), old, new)

\* Line 171: the key of a file in the mapping.
ModelKey(file) == Replace(file, GmmExt, <<>>)

\* Lines 167-168: the call, the empty dict and os.listdir(gmm_dir).
CallLoad ==
    /\ l_pc = "idle"
    /\ t_pc # "loop"
    /\ IF dir_exists
       THEN /\ l_pc' = "loop"
            /\ l_todo' = DOMAIN entries
            /\ UNCHANGED l_err
       ELSE /\ l_pc' = "error"
            /\ l_err' = "FileNotFoundError"
            /\ UNCHANGED l_todo
    /\ l_models' = <<>>
    /\ UNCHANGED <<dir_exists, entries, t_pc, t_in, t_todo, gmm_models,
                   fit_calls, t_err, t_ret, l_ret>>
    /\ UNCHANGED notStore

\* Lines 168-171: one name of the listing, which comes in any order.
LoadFile ==
    /\ l_pc = "loop"
    /\ \E file \in l_todo :
          IF ~EndsWith(file, GmmExt)
          THEN /\ l_todo' = l_todo \ {file}
               /\ UNCHANGED <<l_pc, l_models, l_err>>
          ELSE IF entries[file] = Directory
          THEN /\ l_pc' = "error"
               /\ l_err' = "IsADirectoryError"
               /\ UNCHANGED <<l_todo, l_models>>
          ELSE IF ~Unpickles(entries[file])
          THEN /\ l_pc' = "error"
               /\ l_err' = "UnpicklingError"
               /\ UNCHANGED <<l_todo, l_models>>
          ELSE /\ l_models' = [k \in DOMAIN l_models \cup {ModelKey(file)} |->
                                  IF k = ModelKey(file)
                                  THEN PickleLoad(entries[file])
                                  ELSE l_models[k]]
               /\ l_todo' = l_todo \ {file}
               /\ UNCHANGED <<l_pc, l_err>>
    /\ UNCHANGED <<dir_exists, entries, t_pc, t_in, t_todo, gmm_models,
                   fit_calls, t_err, t_ret, l_ret>>
    /\ UNCHANGED notStore

\* Line 173.
LoadReturn ==
    /\ l_pc = "loop"
    /\ l_todo = {}
    /\ l_ret' = l_models
    /\ l_pc' = "done"
    /\ UNCHANGED <<dir_exists, entries, t_pc, t_in, t_todo, gmm_models,
                   fit_calls, t_err, t_ret, l_todo, l_models, l_err>>
    /\ UNCHANGED notStore

NextStore ==
    \/ CallTrain \/ CallTrainAgain \/ TrainSpeaker \/ TrainReturn
    \/ CallLoad \/ LoadFile \/ LoadReturn

\* train_gmm_models and load_gmm_models on one directory.
InitSpecStore == IdleAdapt /\ IdleScore /\ InitStore /\ IdlePar /\ IdleZip /\ IdleWhisper /\ IdleDetect /\ IdleGrid /\ IdleMenu /\ IdleMain

SpecStore == InitSpecStore /\ [][NextStore]_vars


(***************************************************************************)
(* Claims about the model store.                                           *)
(***************************************************************************)
\* The files of the directory whose name ends with '.gmm'.
GmmFiles == {f \in DOMAIN entries : EndsWith(f, GmmExt)}

\* A file name without its last four characters, the trailing '.gmm'.
Stem(file) == SubSeq(file, 1, Len(file) - Len(GmmExt))

\* C6: the mapping load_gmm_models returns has one entry per file whose name
\* ends with '.gmm', keyed by the name without the trailing '.gmm' and holding
\* that file's model; no two such files share a key.
C6_KeyedByStem ==
    l_pc = "done" =>
        /\ DOMAIN l_ret = {Stem(f) : f \in GmmFiles}
        /\ \A f \in GmmFiles : l_ret[Stem(f)] = entries[f].obj
        /\ Cardinality(DOMAIN l_ret) = Cardinality(GmmFiles)

\* C7 as claimed: when a file cannot be unpickled, the error is raised and the
\* models of the valid '.gmm' files are still in the store the caller gets.
C7_OthersStillLoaded ==
    (l_pc = "error" /\ l_err = "UnpicklingError") =>
        \A f \in GmmFiles :
            entries[f].tag = "pickle" =>
                \E k \in DOMAIN l_ret : l_ret[k] = entries[f].obj

\* C7 as amended: when a '.gmm' entry of the directory cannot be read as a
\* pickled model, load_gmm_models never returns a mapping (the loop cannot run
\* out of names without the error), so no model is made available, those of
\* the valid files included.
C7_ErrorReturnsNoStore ==
    (dir_exists /\ \E f \in GmmFiles : entries[f].tag # "pickle") =>
        /\ l_pc # "done"
        /\ ~(l_pc = "loop" /\ l_todo = {})
        /\ l_ret = <<>>

\* C7's case: a valid file was read, then a file that holds no pickle raised
\* the error.
C7_Witness ==
    /\ l_pc = "error"
    /\ l_err = "UnpicklingError"
    /\ l_models # <<>>
    /\ l_ret = <<>>

\* C8: a call whose numbers of speaker labels and of feature matrices differ
\* fails with the error, and nothing has happened: the directory is not
\* created, no file is written, no model is fitted, nothing is returned.
C8_MismatchFailsFirst ==
    (t_pc # "idle" /\ Len(t_in.X) # Len(t_in.speaker_names)) =>
        /\ t_pc = "error"
        /\ t_err = "ValueError"
        /\ dir_exists = t_in.dir_before
        /\ entries = t_in.entries_before
        /\ fit_calls = <<>>
        /\ gmm_models = <<>>
        /\ t_ret = <<>>

\* C8's case: a failed call with differing numbers that named an output
\* directory which does not exist.
C8_Witness ==
    /\ t_pc = "error"
    /\ Len(t_in.X) # Len(t_in.speaker_names)
    /\ t_in.output_dir # <<>>
    /\ ~t_in.dir_before

\* The frames of the files labelled sp, in the order of the files (each file
\* holds one frame).
FramesOf(sp) ==
    LET files == SelectSeq([i \in 1..Len(t_in.X) |-> i],
                           LAMBDA i : t_in.speaker_names[i] = sp)
    IN  [j \in 1..Len(files) |-> t_in.X[files[j]][1]]

\* C9: on success the keys of the mapping returned are exactly the distinct
\* speaker labels, each with the model fitted on that speaker's frames; when
\* output_dir is given, the directory exists and holds, for each distinct
\* label, the file '<speaker>.gmm' with that model pickled, a file per label.
C9_OneModelAndFilePerSpeaker ==
    t_pc = "done" =>
        /\ DOMAIN t_ret = Range(t_in.speaker_names)
        /\ \A sp \in DOMAIN t_ret :
              t_ret[sp] = [n_components |-> t_in.n_components,
                           fitted_on |-> FramesOf(sp)]
        /\ t_in.output_dir # <<>> =>
              /\ dir_exists
              /\ \A sp \in DOMAIN t_ret :
                    /\ (sp \o GmmExt) \in DOMAIN entries
                    /\ entries[sp \o GmmExt] = [tag |-> "pickle", obj |-> t_ret[sp]]
              /\ Cardinality({sp \o GmmExt : sp \in DOMAIN t_ret})
                   = Cardinality(DOMAIN t_ret)

\* C9's case: a successful call for two speakers that created output_dir.
C9_Witness ==
    /\ t_pc = "done"
    /\ t_in.output_dir # <<>>
    /\ ~t_in.dir_before
    /\ Cardinality(DOMAIN t_ret) = 2

\* C10: after a successful train_gmm_models into a directory that was empty or
\* absent, load_gmm_models on that directory returns a mapping with the keys
\* of the one training returned and, under each key, the same model.
C10_RoundTrip ==
    (/\ t_pc = "done"
     /\ t_in.output_dir # <<>>
     /\ DOMAIN t_in.entries_before = {}
     /\ l_pc = "done") =>
        /\ DOMAIN l_ret = DOMAIN t_ret
        /\ \A k \in DOMAIN t_ret : l_ret[k] = t_ret[k]

\* The files of the speakers of the call.
SpeakerFiles == {ModelFileName(sp) : sp \in Range(t_in.speaker_names)}

\* C19: train_gmm_models creates output_dir when it is absent and raises no
\* error because it exists; a call that succeeds leaves every other entry of
\* the directory as it was and overwrites the '<speaker>.gmm' files that were
\* there; a second call with the same arguments raises no error, returns what
\* the first returned and leaves the directory as the first left it.
C19_TrainTwice ==
    /\ (t_pc = "error" /\ fit_calls = <<>>) =>
          Len(t_in.X) # Len(t_in.speaker_names)
    /\ (t_pc = "done" /\ t_in.output_dir # <<>>) =>
          /\ dir_exists
          /\ DOMAIN entries = DOMAIN t_in.entries_before \cup SpeakerFiles
          /\ \A n \in DOMAIN t_in.entries_before \ SpeakerFiles :
                entries[n] = t_in.entries_before[n]
          /\ \A sp \in DOMAIN t_ret :
                entries[ModelFileName(sp)] = PickleDump(t_ret[sp])
    /\ t_in.call = 2 =>
          /\ t_pc # "error"
          /\ t_pc = "done" =>
                /\ t_ret = t_in.first_ret
                /\ entries = t_in.entries_before

\* C19's case: the second call has returned, in a directory that holds the
\* file of a speaker and a file that is no speaker's.
C19_Witness ==
    /\ t_in.call = 2
    /\ t_pc = "done"
    /\ t_in.output_dir # <<>>
    /\ SpeakerFiles # {}
    /\ DOMAIN entries \ SpeakerFiles # {}

\* The speakers train_gmm_models has not got through: the one whose fit or
\* write failed and those after it.
NotProcessed == Range(t_todo)

\* C25 as stated: when fitting or writing fails for a speaker, the files of the
\* speakers processed before it exist in output_dir and no file exists for a
\* speaker processed after it.
C25_NoFileForLaterSpeakers ==
    (t_pc = "error" /\ fit_calls # <<>> /\ t_in.output_dir # <<>>) =>
        /\ \A sp \in DOMAIN gmm_models : (sp \o GmmExt) \in DOMAIN entries
        /\ \A sp \in Range(Tail(t_todo)) : (sp \o GmmExt) \notin DOMAIN entries

\* C25, amended: at every point of the loop, and when fitting or writing fails
\* for a speaker, output_dir holds the pickled model of every speaker processed
\* before, and the call has written nothing for the speakers not processed:
\* their files are absent, or what they were before the call.
C25_PersistedBeforeNextFit ==
    (t_pc \in {"loop", "error"} /\ t_in.output_dir # <<>>
       /\ (t_pc = "error" => fit_calls # <<>>)) =>
        /\ Len(fit_calls) = Cardinality(DOMAIN gmm_models)
                               + (IF t_pc = "error" THEN 1 ELSE 0)
        /\ \A sp \in DOMAIN gmm_models :
              /\ (sp \o GmmExt) \in DOMAIN entries
              /\ entries[sp \o GmmExt] = [tag |-> "pickle", obj |-> gmm_models[sp]]
        /\ \A sp \in NotProcessed :
              IF (sp \o GmmExt) \in DOMAIN t_in.entries_before
              THEN /\ (sp \o GmmExt) \in DOMAIN entries
                   /\ entries[sp \o GmmExt] = t_in.entries_before[sp \o GmmExt]
              ELSE (sp \o GmmExt) \notin DOMAIN entries

\* C25's case: the second of two speakers failed, and the file of the first is
\* in the directory the call created.
C25_Witness ==
    /\ t_pc = "error"
    /\ t_in.output_dir # <<>>
    /\ Len(fit_calls) = 2
    /\ Cardinality(DOMAIN gmm_models) = 1
    /\ \A sp \in DOMAIN gmm_models : (sp \o GmmExt) \in DOMAIN entries

(***************************************************************************)
(* extract_and_filter_zips.                                                *)
(*                                                                         *)
(* A zip archive is the sequence of its members' names (item.filename of   *)
(* infolist()): '/' separates the directories, a directory's name ends in  *)
(* '/'.  The output directory maps a path relative to it to the kind of    *)
(* the entry and to where it comes from: the archive it was extracted      *)
(* from, <<"parent">> for a directory made to hold an extracted member,    *)
(* <<"log">> for the log file, <<"before">> for what was there before.     *)
(***************************************************************************)
\* p without its trailing '/' characters.
RStrip(p) ==
    LET n == CHOOSE n \in 0..Len(p) :
                /\ n = 0 \/ p[n] # "/"
                /\ \A j \in (n + 1)..Len(p) : p[j] = "/"
    IN  SubSeq(p, 1, n)

\* os.path.dirname(p): up to the last '/', without trailing slashes unless it
\* is all slashes.
Dirname(p) ==
    LET head == SubSeq(p, 1, LastIndexOf(p, "/"))
    IN  IF RStrip(head) = <<>> THEN head ELSE RStrip(head)

\* os.path.basename(p), which is also p.split('/')[-1]: after the last '/'.
Basename(p) == SubSeq(p, LastIndexOf(p, "/") + 1, Len(p))

\* os.path.splitext(p)[-1]: from the last dot of the last component on, when a
\* character other than a dot precedes it there.
Extension(p) ==
    LET sep == LastIndexOf(p, "/")
        dot == LastIndexOf(p, ".")
    IN  IF dot > sep /\ \E i \in (sep + 1)..(dot - 1) : p[i] # "."
        THEN SubSeq(p, dot, Len(p))
        ELSE <<>>

\* Lines 86-88: the member passes the filter.
NotRemoved(item, to_remove) ==
    /\ Basename(Dirname(item)) \notin to_remove
    /\ Basename(item) \notin to_remove
    /\ Extension(item) \notin to_remove

\* p.split('/'): the components of a path.
RECURSIVE Split(_)
Split(p) ==
    IF LastIndexOf(p, "/") = 0 THEN <<p>>
    ELSE Append(Split(SubSeq(p, 1, LastIndexOf(p, "/") - 1)), Basename(p))

\* '/'.join(parts).
RECURSIVE Join(_)
Join(parts) ==
    IF parts = <<>> THEN <<>>
    ELSE IF Len(parts) = 1 THEN parts[1]
    ELSE Join(SubSeq(parts, 1, Len(parts) - 1)) \o <<"/">> \o parts[Len(parts)]

\* Where ZipFile.extract puts a member below the directory it extracts to: the
\* member's name without its empty, '.' and '..' components, so without a
\* leading or trailing '/'.
ArcName(item) ==
    Join(SelectSeq(Split(item),
                   LAMBDA c : c \notin {<<>>, <<".">>, <<".", ".">>}))

\* Lines 89-92: os.path.join(output_directory, item.filename) is a file or a
\* directory.  For an absolute item.filename the join is item.filename itself,
\* and with a '..' component it leaves output_directory: the file system
\* holds nothing at those paths.
TargetExists(out, item) ==
    /\ item[1] # "/"
    /\ \A i \in 1..Len(Split(item)) : Split(item)[i] # <<".", ".">>
    /\ ArcName(item) \in DOMAIN out

\* The directories above a relative path, nearest last.
RECURSIVE Parents(_)
Parents(path) ==
    IF LastIndexOf(path, "/") = 0 THEN <<>>
    ELSE Append(Parents(Dirname(path)), Dirname(path))

\* zip_ref.extract(item, output_directory) (line 94): the missing directories
\* above the target are made, then the directory or the file itself.
Extract(out, item, archive) ==
    LET target == ArcName(item)
        made == {Parents(target)[i] : i \in 1..Len(Parents(target))} \ DOMAIN out
    IN  [path \in DOMAIN out \cup made \cup {target} |->
            IF path = target
            THEN [kind |-> IF item[Len(item)] = "/" THEN "dir" ELSE "file",
                  from |-> archive]
            ELSE IF path \in made THEN [kind |-> "dir", from |-> <<"parent">>]
            ELSE out[path]]

\* Lines 85-103: the members of one archive in the order of infolist(); a
\* member that passes the filter is extracted unless its target exists.
RECURSIVE ExtractItems(_, _, _, _)
ExtractItems(items, out, archive, to_remove) ==
    IF items = <<>> THEN out
    ELSE LET item == Head(items)
             next == IF /\ NotRemoved(item, to_remove)
                        /\ ~TargetExists(out, item)
                     THEN Extract(out, item, archive)
                     ELSE out
         IN  ExtractItems(Tail(items), next, archive, to_remove)

\* A file that is no zip archive.
NotAnArchive == << <<"!">> >>

\* The input directories tried: file name -> archive.
InputListings ==
    LET a == << <<"r", "/">>,
              <<"r", "/", "f">>,
              <<"r", "/", "s", "/">>,
              <<"r", "/", "s", "/", "f">>,
              <<"k", "/", "g">> >>
        b == << <<"k", "/">>,
              <<"k", "/", "f", ".", "x">>,
              <<"k", "/", "g">>,
              <<"f">> >>
        c == << <<"/", "k", "/", "g">> >>
        az == <<"a", ".", "z", "i", "p">>
        bz == <<"b", ".", "z", "i", "p">>
        cz == <<"c", ".", "z", "i", "p">>
        nt == <<"n", ".", "t", "x", "t">>
    IN  { az :> a, (az :> a) @@ (bz :> b), (az :> b) @@ (nt :> NotAnArchive),
          (az :> NotAnArchive) @@ (bz :> b), (az :> a) @@ (cz :> c) }

\* The arguments to_remove tried: a list of strings, one string, a list with
\* an item that is no string, and a value that is neither.
ToRemoveArguments ==
    { [type |-> "list", items |-> {}, all_str |-> TRUE],
      [type |-> "list", items |-> {<<"r">>}, all_str |-> TRUE],
      [type |-> "list", items |-> {<<"f">>, <<".", "x">>}, all_str |-> TRUE],
      [type |-> "str", items |-> {<<"r">>}, all_str |-> TRUE],
      [type |-> "list", items |-> {<<"r">>}, all_str |-> FALSE],
      [type |-> "tuple", items |-> {<<"r">>}, all_str |-> TRUE] }

\* The name of the log file (line 61).
LogName == <<"u", "n", "z", "i", "p", "_", "p", "l", "u", "s", ".", "l", "o", "g">>

\* What output_directory holds before the call, when it exists.
OutputsBefore ==
    { <<>>,
      (<<"k">> :> [kind |-> "dir", from |-> <<"before">>])
        @@ (<<"k", "/", "g">> :> [kind |-> "file", from |-> <<"before">>])
        @@ (LogName :> [kind |-> "file", from |-> <<"before">>]) }

InitZip ==
    /\ z_pc = "idle"
    /\ z_exists \in BOOLEAN
    /\ z_out \in (IF z_exists THEN OutputsBefore ELSE {<<>>})
    /\ \E in_isdir \in BOOLEAN, listing \in InputListings,
          parent_isdir \in (IF z_exists THEN {TRUE} ELSE BOOLEAN),
          to_remove \in ToRemoveArguments :
          z_in = [input_isdir |-> in_isdir,
                  listing |-> IF in_isdir THEN listing ELSE <<>>,
                  parent_isdir |-> parent_isdir, to_remove |-> to_remove,
                  out_before |-> z_out]
    /\ z_todo = {}
    /\ z_err = "none"

\* Lines 36-70: the checks of the paths and of to_remove, the output
\* directory, the log file.
CallExtract ==
    /\ z_pc = "idle"
    /\ IF \/ ~z_in.input_isdir
          \/ ~z_in.parent_isdir
          \/ z_in.to_remove.type \notin {"str", "list"}
          \/ ~z_in.to_remove.all_str
       THEN /\ z_pc' = "error"
            /\ z_err' = "ValueError"
            /\ UNCHANGED <<z_todo, z_exists, z_out>>
       ELSE /\ z_pc' = "loop"
            /\ z_exists' = TRUE
            /\ z_out' = [path \in DOMAIN z_out \cup {LogName} |->
                            IF path = LogName
                            THEN [kind |-> "file", from |-> <<"log">>]
                            ELSE z_out[path]]
            /\ z_todo' = DOMAIN z_in.listing
            /\ UNCHANGED z_err
    /\ UNCHANGED z_in
    /\ UNCHANGED notZip

\* Lines 73-119: one name of the listing, which comes in any order.  BadZipFile
\* is no LargeZipFile, so line 113 does not catch it.
ExtractArchive ==
    /\ z_pc = "loop"
    /\ \E filename \in z_todo :
          IF ~EndsWith(filename, <<".", "z", "i", "p">>)
          THEN /\ z_todo' = z_todo \ {filename}
               /\ UNCHANGED <<z_pc, z_out, z_err>>
          ELSE IF z_in.listing[filename] = NotAnArchive
          THEN /\ z_pc' = "error"
               /\ z_err' = "BadZipFile"
               /\ UNCHANGED <<z_todo, z_out>>
          ELSE /\ z_out' = ExtractItems(z_in.listing[filename], z_out, filename,
                                        z_in.to_remove.items)
               /\ z_todo' = z_todo \ {filename}
               /\ UNCHANGED <<z_pc, z_err>>
    /\ UNCHANGED <<z_in, z_exists>>
    /\ UNCHANGED notZip

\* The listing is exhausted: the function returns.
ExtractReturn ==
    /\ z_pc = "loop"
    /\ z_todo = {}
    /\ z_pc' = "done"
    /\ UNCHANGED <<z_in, z_todo, z_exists, z_out, z_err>>
    /\ UNCHANGED notZip

NextZip == CallExtract \/ ExtractArchive \/ ExtractReturn

InitSpecZip == IdleAdapt /\ IdleScore /\ IdleStore /\ IdlePar /\ InitZip /\ IdleWhisper /\ IdleDetect /\ IdleGrid /\ IdleMenu /\ IdleMain

SpecZip == InitSpecZip /\ [][NextZip]_vars

\* The names of the directories a member lies in: the parts of its name
\* before the last '/'.
DirectoriesOf(item) ==
    {Basename(Parents(ArcName(item))[i]) : i \in 1..Len(Parents(ArcName(item)))}

\* C20: after the call no archive member that lies in a directory named in
\* to_remove, at any depth below it, or whose file name or extension is in
\* to_remove, has been extracted, and every other member of every '.zip' of
\* the input directory is present in the output directory.
C20_RemovedNeverExtracted ==
    z_pc = "done" =>
        \A filename \in {f \in DOMAIN z_in.listing :
                             EndsWith(f, <<".", "z", "i", "p">>)} :
            \A n \in 1..Len(z_in.listing[filename]) :
                LET item == z_in.listing[filename][n]
                    to_remove == z_in.to_remove.items
                    removed == \/ DirectoriesOf(item) \cap to_remove # {}
                               \/ Basename(item) \in to_remove
                               \/ Extension(item) \in to_remove
                    extracted == /\ ArcName(item) \in DOMAIN z_out
                                 /\ z_out[ArcName(item)].from = filename
                IN  /\ removed => ~extracted
                    /\ ~removed => ArcName(item) \in DOMAIN z_out

\* C29: the call never overwrites or modifies a path that exists in the output
\* directory: what is there, from before the call or from the archive
\* processed first, stays as it is.
C29_ExistingPathsKept ==
    [][\A path \in DOMAIN z_out :
          /\ path \in DOMAIN z_out'
          /\ z_out'[path] = z_out[path]]_vars

(***************************************************************************)
(* whisper_transcribe_align.                                               *)
(*                                                                         *)
(* A directory maps a file name to its content: "audio" for a recording,   *)
(* "other" for any other file that was there before the call, and for a    *)
(* TextGrid either "before" (it was there before the call) or the name of  *)
(* the audio file it was made from by this call.                           *)
(***************************************************************************)
TextGridExt == <<".", "T", "e", "x", "t", "G", "r", "i", "d">>

\* Line 485: the name has the extension of an audio file.
IsAudio(audio) ==
    \/ EndsWith(audio, <<".", "w", "a", "v">>)
    \/ EndsWith(audio, <<".", "f", "l", "a", "c">>)
    \/ EndsWith(audio, <<".", "m", "p", "3">>)

\* Lines 488, 511: os.path.splitext(audio)[0] + ".TextGrid".
TextGridOf(audio) == SplitExtRoot(audio) \o TextGridExt

\* Line 488: the file is to be transcribed; the TextGrid is looked for in
\* audio_files, the listing of the corpus.
ToTranscribe(audio, overwrite, audio_files) ==
    overwrite \/ TextGridOf(audio) \notin audio_files

\* The directory the call writes to (lines 477-480).
OutputLocation == IF w_in.output_path = "none" THEN "corpus" ELSE "out"

\* The content of a directory that holds the files of S before the call.
DirectoryOf(S) ==
    [name \in S |-> IF IsAudio(name) THEN "audio"
                    ELSE IF EndsWith(name, TextGridExt) THEN "before"
                    ELSE "other"]

\* whisper_transcribe_align alone.  Before the call: a corpus, an output_path
\* (none, or another directory, which may exist) and the overwrite flag.
InitSpecWhisper ==
    /\ IdleAdapt /\ IdleScore /\ IdleStore /\ IdlePar /\ IdleZip /\ IdleDetect /\ IdleGrid /\ IdleMenu /\ IdleMain
    /\ w_pc = "idle"
    /\ \E corpus \in SUBSET { <<"a", ".", "w", "a", "v">>, <<"a">> \o TextGridExt,
                               <<"b", ".", "f", "l", "a", "c">>,
                               <<"b">> \o TextGridExt, <<"n", ".", "t", "x", "t">> },
          path \in {"none", "out"}, out_exists \in BOOLEAN,
          out \in SUBSET { <<"a">> \o TextGridExt, <<"b">> \o TextGridExt },
          overwrite \in BOOLEAN :
          /\ path = "none" => ~out_exists
          /\ ~out_exists => out = {}
          /\ w_fs = [corpus |-> DirectoryOf(corpus), out |-> DirectoryOf(out)]
          /\ w_in = [output_path |-> path, out_exists |-> out_exists,
                     overwrite |-> overwrite, before |-> w_fs]
    /\ w_todo = {}
    /\ w_log = {}

\* Lines 467-482: the listing of the corpus and the output directory.
CallTranscribe ==
    /\ w_pc = "idle"
    /\ w_todo' = DOMAIN w_fs.corpus
    /\ w_in' = [w_in EXCEPT !.out_exists = @ \/ w_in.output_path # "none"]
    /\ w_pc' = "loop"
    /\ UNCHANGED <<w_fs, w_log>>
    /\ UNCHANGED notWhisper

\* Lines 484-514: one name of audio_files, which come in any order.
TranscribeFile ==
    /\ w_pc = "loop"
    /\ \E audio \in w_todo :
          /\ w_todo' = w_todo \ {audio}
          /\ IF /\ IsAudio(audio)
                /\ ToTranscribe(audio, w_in.overwrite, DOMAIN w_in.before.corpus)
             THEN LET loc == OutputLocation
                      copied == IF loc = "out" THEN {audio} ELSE {}
                      tg == TextGridOf(audio)
                  IN  /\ w_fs' = [w_fs EXCEPT ![loc] =
                                    [name \in DOMAIN w_fs[loc] \cup copied \cup {tg} |->
                                        IF name = tg THEN audio
                                        ELSE IF name \in copied THEN "audio"
                                        ELSE w_fs[loc][name]]]
                      /\ w_log' = w_log \cup {audio}
             ELSE UNCHANGED <<w_fs, w_log>>
    /\ UNCHANGED <<w_pc, w_in>>
    /\ UNCHANGED notWhisper

\* Lines 516-517.
TranscribeReturn ==
    /\ w_pc = "loop"
    /\ w_todo = {}
    /\ w_pc' = "done"
    /\ UNCHANGED <<w_in, w_todo, w_fs, w_log>>
    /\ UNCHANGED notWhisper

NextWhisper == CallTranscribe \/ TranscribeFile \/ TranscribeReturn

SpecWhisper == InitSpecWhisper /\ [][NextWhisper]_vars

\* C21: with overwrite=False, an audio file whose '<stem>.TextGrid' is in the
\* output location before the call is not transcribed, and that TextGrid
\* stays what it was, whether the output location is the corpus or another
\* directory.
C21_ExistingTranscriptionKept ==
    (w_pc # "idle" /\ ~w_in.overwrite) =>
        \A audio \in {f \in DOMAIN w_in.before.corpus : IsAudio(f)} :
            TextGridOf(audio) \in DOMAIN w_in.before[OutputLocation] =>
                /\ audio \notin w_log
                /\ TextGridOf(audio) \in DOMAIN w_fs[OutputLocation]
                /\ w_fs[OutputLocation][TextGridOf(audio)] = "before"

(***************************************************************************)
(* detect_language.                                                        *)
(*                                                                         *)
(* A recording is given by its duration in seconds.  Whisper resamples to  *)
(* 16000 samples per second and its log-mel spectrogram has one frame per  *)
(* 160 samples, so 100 frames per second; N_FRAMES frames are 30 seconds.  *)
(***************************************************************************)
\* whisper.audio.N_FRAMES (line 23): the frames of one 30-second chunk.
N_FRAMES == 3000

\* Line 168: main passes max_analysis_length (seconds) * 16000.
SAMPLE_RATE == 16000

\* Lines 72-78: load_audio gives duration * 16000 samples, log_mel_spectrogram
\* a frame per hop of 160 samples.
LogMelFrames(seconds) == (seconds * SAMPLE_RATE) \div 160

Min(a, b) == IF a < b THEN a ELSE b

\* Line 94: the loop variable has a next value: range(0, stop, N_FRAMES).
ChunkLeft(i, frames, max_analysis_length) ==
    i < Min(frames, max_analysis_length)

\* detect_language alone: main is called with max_analysis_length seconds for
\* a recording of some duration, with a model that is multilingual or not.
InitSpecDetect ==
    /\ IdleAdapt /\ IdleScore /\ IdleStore /\ IdlePar /\ IdleZip /\ IdleWhisper /\ IdleGrid /\ IdleMenu /\ IdleMain
    /\ d_pc = "idle"
    /\ \E seconds \in {10, 30, 45, 90, 600, 1200},
          max_seconds \in {30, 60, 120},
          multilingual \in BOOLEAN :
          d_in = [seconds |-> seconds, max_seconds |-> max_seconds,
                  max_analysis_length |-> max_seconds * SAMPLE_RATE,
                  is_multilingual |-> multilingual]
    /\ n_frames = 0
    /\ d_i = 0
    /\ d_chunks = <<>>

\* Lines 167-169 and 69-93: the call, the spectrogram and the padding of a
\* short recording.
CallDetect ==
    /\ d_pc = "idle"
    /\ IF ~d_in.is_multilingual
       THEN /\ d_pc' = "error"
            /\ UNCHANGED n_frames
       ELSE /\ d_pc' = "loop"
            /\ n_frames' = IF LogMelFrames(d_in.seconds) < N_FRAMES
                           THEN N_FRAMES
                           ELSE LogMelFrames(d_in.seconds)
    /\ d_i' = 0
    /\ UNCHANGED <<d_in, d_chunks>>
    /\ UNCHANGED notDetect

\* Lines 94-109: one chunk is passed to the model.
DetectChunk ==
    /\ d_pc = "loop"
    /\ ChunkLeft(d_i, n_frames, d_in.max_analysis_length)
    /\ LET end_frame == Min(d_i + N_FRAMES, n_frames)
       IN  d_chunks' = Append(d_chunks, <<d_i, end_frame>>)
    /\ d_i' = d_i + N_FRAMES
    /\ UNCHANGED <<d_pc, d_in, n_frames>>
    /\ UNCHANGED notDetect

\* Lines 111-118.
DetectReturn ==
    /\ d_pc = "loop"
    /\ ~ChunkLeft(d_i, n_frames, d_in.max_analysis_length)
    /\ d_pc' = "done"
    /\ UNCHANGED <<d_in, n_frames, d_i, d_chunks>>
    /\ UNCHANGED notDetect

NextDetect == CallDetect \/ DetectChunk \/ DetectReturn

SpecDetect == InitSpecDetect /\ [][NextDetect]_vars

\* C22: when main is called with max_analysis_length = S seconds, the chunks
\* passed to the model cover no more than S seconds of the recording: they are
\* at most ceil(S / 30), 30 seconds being the duration of a chunk, and none
\* ends after the frame of second S when S is a multiple of 30.
C22_AtMostMaxLengthAnalysed ==
    d_pc # "idle" =>
        /\ Len(d_chunks) <= (d_in.max_seconds + 29) \div 30
        /\ \A c \in 1..Len(d_chunks) :
              d_chunks[c][2] <= 100 * 30 * ((d_in.max_seconds + 29) \div 30)

(***************************************************************************)
(* TextGridHandler.                                                        *)
(*                                                                         *)
(* A table is a sequence of rows [tmin, tmax, tier, text]; the index label *)
(* of a row is its position, from 0.  A TextGrid has the tiers it was      *)
(* given, in order; an interval tier is the sequence of its intervals,     *)
(* each with its end time and text (an interval starts where the one       *)
(* before it ends, the first at xmin); a point tier is the sequence of its *)
(* points.  A Praat command that fails raises PraatError and changes       *)
(* nothing.                                                                *)
(***************************************************************************)
\* A tier as "Insert interval tier" and "Insert point tier" make it.
NewTier(tier_name, kind, end) ==
    [name |-> tier_name, kind |-> kind,
     ivs |-> IF kind = "interval" THEN <<[xmax |-> end, text |-> ""]>> ELSE <<>>,
     points |-> <<>>]

\* Praat's "Insert boundary": the interval t lies in is cut at t; its text
\* stays in the left part.
InsertBoundary(tg, ntier, t) ==
    IF \/ ntier \notin 1..Len(tg.tiers)
       \/ tg.tiers[ntier].kind # "interval"
       \/ t <= tg.xmin
       \/ t >= tg.xmax
       \/ \E k \in 1..Len(tg.tiers[ntier].ivs) : tg.tiers[ntier].ivs[k].xmax = t
    THEN [ok |-> FALSE, tg |-> tg]
    ELSE LET ivs == tg.tiers[ntier].ivs
             k == CHOOSE k \in 1..Len(ivs) :
                     /\ t < ivs[k].xmax
                     /\ \A j \in 1..(k - 1) : ivs[j].xmax < t
             cut == SubSeq(ivs, 1, k - 1)
                      \o <<[xmax |-> t, text |-> ivs[k].text],
                           [xmax |-> ivs[k].xmax, text |-> ""]>>
                      \o SubSeq(ivs, k + 1, Len(ivs))
         IN  [ok |-> TRUE, tg |-> [tg EXCEPT !.tiers[ntier].ivs = cut]]

\* Praat's "Set interval text".
SetIntervalText(tg, ntier, nsegment, text) ==
    IF \/ ntier \notin 1..Len(tg.tiers)
       \/ tg.tiers[ntier].kind # "interval"
       \/ nsegment \notin 1..Len(tg.tiers[ntier].ivs)
    THEN [ok |-> FALSE, tg |-> tg]
    ELSE [ok |-> TRUE,
          tg |-> [tg EXCEPT !.tiers[ntier].ivs[nsegment].text = text]]

\* Praat's "Insert point".
InsertPoint(tg, ntier, t, text) ==
    IF \/ ntier \notin 1..Len(tg.tiers)
       \/ tg.tiers[ntier].kind # "point"
       \/ \E k \in 1..Len(tg.tiers[ntier].points) :
             tg.tiers[ntier].points[k].t = t
    THEN [ok |-> FALSE, tg |-> tg]
    ELSE [ok |-> TRUE,
          tg |-> [tg EXCEPT !.tiers[ntier].points =
                                Append(@, [t |-> t, text |-> text])]]

\* Lines 158-173: _insert_segment.  ok is FALSE when PraatError leaves it.
InsertSegment(tg, ntier, nsegment, t1, text) ==
    LET txt == IF text \in {"nan", "?"} THEN "" ELSE text
        bound == IF t1 < tg.xmax THEN InsertBoundary(tg, ntier, t1)
                 ELSE [ok |-> TRUE, tg |-> tg]
        set == SetIntervalText(bound.tg, ntier, nsegment, txt)
    IN  IF bound.ok /\ set.ok THEN set
        ELSE InsertPoint(bound.tg, ntier, t1, txt)

\* The rows of a table that belong to a tier, in table order, each with its
\* index label (lines 202, 254: iterrows).
RowsOf(table, tier) ==
    LET idx == SelectSeq([i \in 1..Len(table) |-> i],
                         LAMBDA i : table[i].tier = tier)
    IN  [j \in 1..Len(idx) |-> [nsegment |-> idx[j] - 1,
                                t1 |-> table[idx[j]].tmax,
                                text |-> table[idx[j]].text]]

\* Lines 202-206, 254-261: the rows are inserted one after the other, until
\* one raises.
RECURSIVE InsertRows(_, _, _)
InsertRows(tg, ntier, rows) ==
    IF rows = <<>> THEN [ok |-> TRUE, tg |-> tg]
    ELSE LET r == InsertSegment(tg, ntier, rows[1].nsegment + 1, rows[1].t1,
                                rows[1].text)
         IN  IF r.ok THEN InsertRows(r.tg, ntier, Tail(rows)) ELSE r

\* Lines 200-206: the tiers in the order of list(self.tiers), from tier i on.
RECURSIVE InsertTiers(_, _, _, _)
InsertTiers(tg, order, i, table) ==
    IF i > Len(order) THEN [ok |-> TRUE, tg |-> tg]
    ELSE LET r == InsertRows(tg, i, RowsOf(table, order[i]))
         IN  IF r.ok THEN InsertTiers(r.tg, order, i + 1, table) ELSE r

\* Lines 190-208: table_to_textgrid, with list(self.tiers) in the order given.
TableToTextGrid(table, order) ==
    LET start == CHOOSE t \in {table[i].tmin : i \in 1..Len(table)} :
                    \A i \in 1..Len(table) : t <= table[i].tmin
        end == CHOOSE t \in {table[i].tmax : i \in 1..Len(table)} :
                  \A i \in 1..Len(table) : t >= table[i].tmax
        tg == [xmin |-> start, xmax |-> end,
               tiers |-> [i \in 1..Len(order) |->
                             NewTier(order[i], "interval", end)]]
    IN  InsertTiers(tg, order, 1, table)

\* Line 241: f"{tier_name}_{ntier}", for a tier number of one digit.
Suffix(tier_name, ntier) ==
    tier_name \o <<"_", <<"1", "2", "3", "4", "5", "6", "7", "8", "9">>[ntier]>>

\* The tables a handler is made from: one or two tiers, the rows grouped by
\* tier or in the order of their start times.
GridTables ==
    LET a1 == [tmin |-> 0, tmax |-> 1, tier |-> <<"a">>, text |-> "x"]
        a2 == [tmin |-> 1, tmax |-> 2, tier |-> <<"a">>, text |-> "?"]
        a3 == [tmin |-> 0, tmax |-> 2, tier |-> <<"a">>, text |-> "nan"]
        b1 == [tmin |-> 0, tmax |-> 1, tier |-> <<"b">>, text |-> "y"]
        b2 == [tmin |-> 1, tmax |-> 2, tier |-> <<"b">>, text |-> "z"]
    IN  { <<a1, a2>>, <<a3>>, <<a1>>, <<a3, b1, b2>>, <<a1, a2, b1, b2>>,
          <<a1, b1, a2, b2>> }

\* The tables given to add_tier: intervals, intervals that do not reach the
\* end, and points.
TierTables ==
    { << [tmin |-> 0, tmax |-> 1, text |-> "u"],
         [tmin |-> 1, tmax |-> 2, text |-> "v"] >>,
      << [tmin |-> 0, tmax |-> 1, text |-> "?"] >>,
      << [tmin |-> 1, tmax |-> 1, text |-> "p"] >> }

\* The names given to add_tier.
TierNames == { <<"a">>, <<"b">>, <<"a", "_", "3">>, <<"c">> }

\* The orders in which a set may be listed.
Orders(S) ==
    {o \in [1..Cardinality(S) -> S] : \A i, j \in DOMAIN o : o[i] = o[j] => i = j}

\* A handler is made from a table, and tiers are added to it.
InitSpecGrid ==
    /\ IdleAdapt /\ IdleScore /\ IdleStore /\ IdlePar /\ IdleZip /\ IdleWhisper /\ IdleDetect /\ IdleMenu /\ IdleMain
    /\ h_pc = "new"
    /\ h_in \in GridTables
    /\ h_tiers = {}
    /\ h_tg = [xmin |-> 0, xmax |-> 0, tiers |-> <<>>]
    /\ h_added = 0
    /\ h_err = "none"

\* Lines 130-136: __init__ with the file of a table.
NewHandler ==
    /\ h_pc = "new"
    /\ \E order \in Orders({h_in[i].tier : i \in 1..Len(h_in)}) :
          LET r == TableToTextGrid(h_in, order)
          IN  IF r.ok
              THEN /\ h_pc' = "ready"
                   /\ h_tiers' = {h_in[i].tier : i \in 1..Len(h_in)}
                   /\ h_tg' = r.tg
                   /\ UNCHANGED h_err
              ELSE /\ h_pc' = "error"
                   /\ h_err' = "PraatError"
                   /\ UNCHANGED <<h_tiers, h_tg>>
    /\ UNCHANGED <<h_in, h_added>>
    /\ UNCHANGED notGrid

\* Lines 237-261: add_tier.  A position after the last tier is the position
\* after the last tier for Praat.
AddTier ==
    /\ h_pc = "ready"
    /\ Len(h_tg.tiers) < MaxTiers
    /\ \E tier_name \in TierNames, tier_table \in TierTables :
          LET ntier == Cardinality(h_tiers) + 1
              name == IF tier_name \in h_tiers THEN Suffix(tier_name, ntier)
                      ELSE tier_name
              kind == IF tier_table[1].tmin = tier_table[1].tmax THEN "point"
                      ELSE "interval"
              position == Min(ntier, Len(h_tg.tiers) + 1)
              inserted == [h_tg EXCEPT !.tiers =
                             SubSeq(@, 1, position - 1)
                               \o <<NewTier(name, kind, h_tg.xmax)>>
                               \o SubSeq(@, position, Len(@))]
              rows == [j \in 1..Len(tier_table) |->
                          [nsegment |-> j - 1, t1 |-> tier_table[j].tmax,
                           text |-> tier_table[j].text]]
              r == InsertRows(inserted, ntier, rows)
          IN  /\ h_tiers' = h_tiers \cup {name}
              /\ h_tg' = r.tg
              /\ h_err' = IF r.ok THEN "none" ELSE "PraatError"
    /\ h_added' = h_added + 1
    /\ UNCHANGED <<h_pc, h_in>>
    /\ UNCHANGED notGrid

NextGrid == NewHandler \/ AddTier

SpecGrid == InitSpecGrid /\ [][NextGrid]_vars

\* C26: after any sequence of add_tier calls the tier names of the TextGrid
\* are pairwise distinct and self.tiers has as many names as the TextGrid has
\* tiers.
C26_TierNamesDistinct ==
    h_pc = "ready" =>
        /\ \A i, j \in 1..Len(h_tg.tiers) :
              h_tg.tiers[i].name = h_tg.tiers[j].name => i = j
        /\ Cardinality(h_tiers) = Len(h_tg.tiers)

\* C28: table_to_textgrid makes, of every table, a TextGrid in which each tier
\* of the table has an interval per row of that tier, in table order, that
\* ends at the row's end time and has the row's text ('' for a missing text
\* and for '?').
C28_RowsBecomeIntervals ==
    (h_pc # "new" /\ h_added = 0) =>
        /\ h_pc = "ready"
        /\ \A n \in 1..Len(h_tg.tiers) :
              LET rows == RowsOf(h_in, h_tg.tiers[n].name)
                  ivs == h_tg.tiers[n].ivs
              IN  /\ Len(ivs) = Len(rows)
                  /\ \A k \in 1..Len(rows) :
                        /\ ivs[k].xmax = rows[k].t1
                        /\ ivs[k].text = (IF rows[k].text \in {"nan", "?"}
                                          THEN "" ELSE rows[k].text)

(***************************************************************************)
(* tg_helper.main: the prompts for the output filename.  The user's        *)
(* answers are '' (nothing typed), the name of a file that exists ("old")  *)
(* or of one that does not ("new").                                        *)
(***************************************************************************)
InitSpecMenu ==
    /\ IdleAdapt /\ IdleScore /\ IdleStore /\ IdlePar /\ IdleZip /\ IdleWhisper /\ IdleDetect /\ IdleGrid /\ IdleMain
    /\ m_pc = "start"
    /\ m_function \in {"convert", "combine", "search_and_combine"}
    /\ iMax = 0
    /\ output_filename = ""
    /\ m_prompts = 0

\* Lines 416-424: the directory or the filename is asked for.
MenuStart ==
    /\ m_pc = "start"
    /\ IF m_function = "search_and_combine"
       THEN m_pc' = "columns" /\ UNCHANGED iMax
       ELSE m_pc' = "filename" /\ iMax' = 5
    /\ UNCHANGED <<m_function, output_filename, m_prompts>>
    /\ UNCHANGED notMenu

\* Lines 425-431 and 434-438: an answer to the prompt for the output filename.
AnswerFilename ==
    /\ m_pc = "filename"
    /\ iMax > 0
    /\ m_prompts < MaxPrompts
    /\ m_prompts' = m_prompts + 1
    /\ \E answer \in {"", "old", "new"} :
          /\ output_filename' = answer
          /\ IF answer = ""
             THEN /\ iMax' = iMax - 1
                  /\ m_pc' = IF iMax' > 0 THEN "filename" ELSE "exit"
             ELSE /\ m_pc' = IF answer = "old" THEN "overwrite" ELSE "columns"
                  /\ UNCHANGED iMax
    /\ UNCHANGED m_function
    /\ UNCHANGED notMenu

\* Lines 432-433: an answer to the question whether to overwrite.
AnswerOverwrite ==
    /\ m_pc = "overwrite"
    /\ \E answer \in {"y", "n", ""} :
          m_pc' = IF answer = "y" THEN "columns" ELSE "filename"
    /\ UNCHANGED <<m_function, iMax, output_filename, m_prompts>>
    /\ UNCHANGED notMenu

NextMenu == MenuStart \/ AnswerFilename \/ AnswerOverwrite

SpecMenu == InitSpecMenu /\ [][NextMenu]_vars

\* C27: the prompt for the output filename is shown at most 5 times, whatever
\* the user answers, and main does not go on to convert or combine with an
\* empty output filename.
C27_AtMostFivePrompts ==
    /\ m_prompts <= 5
    /\ (m_pc = "columns" /\ m_function # "search_and_combine") =>
          output_filename # ""

(***************************************************************************)
(* unzip_plus.main.  The directories are "cwd" (os.getcwd(), the default   *)
(* of --input_directory), "cwd/output" (the default of                     *)
(* --output_directory) or others.                                          *)
(***************************************************************************)
\* What a user may type at a prompt that shows "(y or [n])".
Answers == {"y", "n", "", "N", "no", "yes"}

\* Lines 148, 157: the answer aborts the run.
Aborts(x) == x = "n" \/ x = ""

InitSpecMain ==
    /\ IdleAdapt /\ IdleScore /\ IdleStore /\ IdlePar /\ IdleZip /\ IdleWhisper /\ IdleDetect /\ IdleGrid /\ IdleMenu
    /\ u_pc = "start"
    /\ u_in \in [run_test : {0, 1}, input_directory : {"cwd", "in"},
                 output_directory : {"cwd/output", "out"},
                 remove : {<<>>, <<"raw">>}]
    /\ u_answers = <<>>
    /\ u_msg = "none"
    /\ u_call = <<>>

\* Lines 139-141 and 131-136: test() calls extract_and_filter_zips on its own
\* directories.
RunTest ==
    /\ u_pc = "start"
    /\ u_in.run_test # 0
    /\ u_call' = [input_directory |-> "cwd/in_test",
                  output_directory |-> "cwd/out_test",
                  to_remove |-> <<"raw", "audio_video_features.csv",
                                  "transcription", ".mp4", ".png">>]
    /\ u_pc' = "called"
    /\ UNCHANGED <<u_in, u_answers, u_msg>>
    /\ UNCHANGED notMain

\* Lines 143-150: the prompt for the default input directory.
AnswerInput ==
    /\ u_pc = "start"
    /\ u_in.run_test = 0
    /\ u_in.input_directory = "cwd"
    /\ \E x \in Answers :
          /\ u_answers' = Append(u_answers, x)
          /\ IF Aborts(x)
             THEN u_msg' = "Aborted." /\ u_pc' = "aborted"
             ELSE u_pc' = "input_ok" /\ UNCHANGED u_msg
    /\ UNCHANGED <<u_in, u_call>>
    /\ UNCHANGED notMain

\* Line 152 is reached: the input directory is not the default, or the user
\* did not abort.
PastInput ==
    \/ u_pc = "input_ok"
    \/ u_pc = "start" /\ u_in.run_test = 0 /\ u_in.input_directory # "cwd"

\* Lines 152-159: the prompt for the default output directory.
AnswerOutput ==
    /\ PastInput
    /\ u_in.output_directory = "cwd/output"
    /\ \E x \in Answers :
          /\ u_answers' = Append(u_answers, x)
          /\ IF Aborts(x)
             THEN u_msg' = "Aborted." /\ u_pc' = "aborted"
             ELSE u_pc' = "output_ok" /\ UNCHANGED u_msg
    /\ UNCHANGED <<u_in, u_call>>
    /\ UNCHANGED notMain

\* Lines 161-165: the call of extract_and_filter_zips.
MainExtract ==
    /\ \/ u_pc = "output_ok"
       \/ PastInput /\ u_in.output_directory # "cwd/output"
    /\ u_call' = [input_directory |-> u_in.input_directory,
                  output_directory |-> u_in.output_directory,
                  to_remove |-> u_in.remove]
    /\ u_pc' = "called"
    /\ UNCHANGED <<u_in, u_answers, u_msg>>
    /\ UNCHANGED notMain

NextMain == RunTest \/ AnswerInput \/ AnswerOutput \/ MainExtract

SpecMain == InitSpecMain /\ [][NextMain]_vars

\* C30: at the prompt for a directory left at its default, every answer other
\* than 'y' makes main print 'Aborted.' and return without calling
\* extract_and_filter_zips; the extraction is called only after 'y' at every
\* prompt shown.
C30_OnlyYesProceeds ==
    \A i \in 1..Len(u_answers) :
        u_answers[i] # "y" =>
            /\ i = Len(u_answers)
            /\ u_pc = "aborted"
            /\ u_msg = "Aborted."
            /\ u_call = <<>>

====
